---- MODULE Spec2Model ----
(***************************************************************************)
(* A model of the Condor-Shirley-Bridge data pipeline:                     *)
(*   SerialReader / UDPReceiver -> NMEAParser / CondorUDPParser -> SimData *)
(*   -> WebSocketServer, orchestrated by Bridge.                           *)
(* Numbers that are floats in the program are fixed-point integers here,   *)
(* in thousandths (Scale).  Text is a sequence of one-character strings.   *)
(***************************************************************************)
EXTENDS Integers, Sequences, FiniteSets, TLC

VARIABLES
    now,            \* time.time(), in whole seconds
    \* ---- NMEAParser (P1)
    gps_position,   \* NMEAParser.gps_position   (NoRec or a GPSPosition)
    soaring_data,   \* NMEAParser.soaring_data   (NoRec or a SoaringData)
    last_gps_time,  \* NMEAParser.last_gps_time
    last_soaring_time, \* NMEAParser.last_soaring_time
    p1_last,        \* the last parse_sentence call: its input and outcome
    \* ---- CondorUDPParser (P2)
    attitude_data,  \* CondorUDPParser.attitude_data (NoRec or a CondorAttitudeData)
    motion_data,    \* CondorUDPParser.motion_data
    settings_data,  \* CondorUDPParser.settings_data
    last_data_time, \* CondorUDPParser.last_data_time
    \* ---- SimData (M)
    _data,          \* SimData._data, the snapshot
    _sources,       \* SimData._sources: a DataSourceStatus for "nmea" and "condor_udp"
    _history,       \* SimData._history: "position", "attitude", "motion"
    _update_counter,   \* SimData._update_counter
    _source_fields,    \* SimData._source_fields
    _last_update_time, \* SimData._last_update_time
    \* ---- Bridge (O)
    error_count,    \* Bridge.error_count
    last_op,        \* the last call made on the bridge and what its parser returned
    nmea_latest,    \* per field, the last value an NMEA view carried since the last reset
    kv_latest,      \* per field, the last value a UDP view carried since the last reset
    \* ---- two SimData objects fed the same two views in the two orders
    fusion_a,       \* the NMEA combined view
    fusion_b,       \* the UDP combined view
    fusion_ab,      \* the SimData that ingests fusion_a, then fusion_b
    fusion_ba,      \* the SimData that ingests fusion_b, then fusion_a
    fusion_pc,      \* how many of its two ingests each of the two has made
    \* ---- SerialReader / UDPReceiver (S1 / S2)
    source_kind,    \* "serial" (SerialReader) or "udp" (UDPReceiver)
    running,        \* self.running
    connection,     \* self.serial_conn / self.socket: "none", "open" or "closed"
    threads,        \* the threads start_reading has started, each at its place in _read_loop
    lines_received, \* self.lines_received / self.messages_received
    data_queue,     \* the number of items in self.data_queue
    delivered,      \* the number of calls of data_callback made
    source_error_count, \* self.error_count of the source
    reconnect_attempts, \* self.reconnect_attempts
    reconnect_pc,   \* auto_reconnect: "idle", or "sleep" at its await asyncio.sleep
    reconnect_run,  \* the last run of auto_reconnect: its delays, open() calls, return
    source_call,    \* the last call made on the source from outside, and what it returned
    external_calls, \* the number of calls made on the source from outside
    \* ---- WebSocketServer (B)
    connections,    \* self.connections, the set of subscribers
    handlers,       \* the peers whose handler coroutine is waiting for messages
    broadcast_pc,   \* _broadcast_data: "idle", or "send" while suspended in await ws.send
    send_log,       \* how the last awaited send ended, and the ticks that failed
    tick_start,     \* self.connections as the for loop of the tick found it
    tick_current,   \* the subscriber whose send is suspended (0: none)
    tick_sent,      \* the subscribers the tick has called send for
    stale_connections, \* the tick's stale_connections list
    errors,         \* self.errors
    total_connections, \* self.total_connections
    total_broadcasts,  \* self.total_broadcasts
    ticks,          \* the number of ticks begun
    tick_message,   \* the message the tick built from the snapshot
    tick_payloads,  \* per subscriber, the message the tick passed to its send
    peer_paths,     \* per peer that has connected, its request path
    closed_with,    \* per peer the server has closed, the close code
    ws_running,     \* WebSocketServer.running
    stop_pc,        \* where WebSocketServer.stop is
    registered_at_stop, \* self.connections when stop was called
    (* SimData's histories, observed *)
    appended_log,   \* per category, every entry _add_to_history was called with
    resets,         \* the number of calls of reset
    interp_last,    \* the last call of SimData.interpolate: its arguments and result
    (* Bridge as orchestrator *)
    settings_enabled, \* settings.get(section, 'enabled') per component
    constructed,    \* the components __init__ has constructed
    bridge_running, \* Bridge.running
    startup_time,   \* Bridge.startup_time
    main_task,      \* Bridge.main_task: the housekeeping loop
    component,      \* per component, what the bridge last did with it
    ws_task,        \* the task that runs WebSocketServer.start
    start_pc,       \* where Bridge.start is
    bridge_stop_pc, \* where Bridge.stop is
    stop_log,       \* what the stop under way (or the last one) has done, in order
    reset_calls,    \* calls of SimData.reset made by stop
    starts,         \* calls of start that found the bridge not running
    stop_calls,     \* calls of stop
    stop_reentered, \* a call of stop was made while one was under way
    queried,        \* the components that were asked for their status
    last_check,     \* the last run of _check_components: when, and whether it warned
    status_result,  \* what the last get_status returned for the components
    reader_pc,      \* the reading thread of L under the bridge: "none", "loop",
                    \* "callback" (a line was read and is on its way to the
                    \* callback), "ended"
    settings_call   \* the calls of update_settings: how many, whether the last
                    \* found the bridge running, and how it ended

nmeaVars == <<gps_position, soaring_data, last_gps_time, last_soaring_time, p1_last>>
kvVars == <<attitude_data, motion_data, settings_data, last_data_time>>
simVars == <<_data, _sources, _history, _update_counter, _source_fields, _last_update_time>>
bridgeVars == <<error_count, last_op, nmea_latest, kv_latest>>
fusionVars == <<fusion_a, fusion_b, fusion_ab, fusion_ba, fusion_pc>>
sourceVars == <<source_kind, running, connection, threads, lines_received, data_queue,
                delivered, source_error_count, reconnect_attempts, reconnect_pc,
                reconnect_run, source_call,
                external_calls>>
hubVars == <<connections, handlers, broadcast_pc, send_log, tick_start, tick_current, tick_sent,
             stale_connections, errors, total_connections, total_broadcasts, ticks,
             tick_message, tick_payloads, peer_paths, closed_with, ws_running, stop_pc,
             registered_at_stop>>
serverVars == <<peer_paths, closed_with, ws_running, stop_pc, registered_at_stop>>
historyVars == <<appended_log, resets, interp_last>>
orchVars == <<settings_enabled, constructed, bridge_running, startup_time, main_task,
              component, ws_task, start_pc, bridge_stop_pc, stop_log, reset_calls, starts,
              stop_calls, stop_reentered, queried, last_check, status_result, reader_pc,
              settings_call>>
restVars == <<fusionVars, sourceVars, hubVars, historyVars, orchVars>>
vars == <<now, nmeaVars, kvVars, simVars, bridgeVars, restVars>>

----------------------------------------------------------------------------
(* Bounds of the model *)

StartTime == 1000   \* the wall clock when the program is constructed
MaxNow == 1006      \* the clock is not advanced past this

(* Fixed point: a float x of the program is the integer x * Scale *)
Scale == 10 ^ 3

(* Python's None, among numbers *)
None == 0 - 999999999

----------------------------------------------------------------------------
(* Generic helpers: Python dicts are functions, dict.update is Update *)

Has(d, k) == k \in DOMAIN d
Put(d, k, v) == [x \in (DOMAIN d) \cup {k} |-> IF x = k THEN v ELSE d[x]]
Update(d, e) == [x \in (DOMAIN d) \cup (DOMAIN e) |-> IF x \in DOMAIN e THEN e[x] ELSE d[x]]
EmptyDict == [x \in {} |-> 0]
Without(d, k) == [x \in (DOMAIN d) \ {k} |-> d[x]]

Min(a, b) == IF a <= b THEN a ELSE b
Max(a, b) == IF a >= b THEN a ELSE b

(* s[a:b] of Python for 0 <= a, on a sequence (0-based, end exclusive, clamped) *)
Slice(s, a, b) == SubSeq(s, a + 1, Min(b, Len(s)))
SliceFrom(s, a) == SubSeq(s, a + 1, Len(s))

(* ord() over printable ASCII; the three characters that cannot be written
   in a string here keep their place under a name *)
Ascii ==
  << " ", "!", "dquote", "#", "$", "%", "&", "'", "(", ")", "*", "+", ",", "-", ".", "/",
     "0", "1", "2", "3", "4", "5", "6", "7", "8", "9", ":", ";", "<", "=", ">", "?",
     "@", "A", "B", "C", "D", "E", "F", "G", "H", "I", "J", "K", "L", "M", "N", "O",
     "P", "Q", "R", "S", "T", "U", "V", "W", "X", "Y", "Z", "[", "backslash", "]", "^", "_",
     "backtick", "a", "b", "c", "d", "e", "f", "g", "h", "i", "j", "k", "l", "m", "n", "o",
     "p", "q", "r", "s", "t", "u", "v", "w", "x", "y", "z", "{", "|", "}", "~" >>
OrdTable == [c \in {Ascii[i] : i \in 1..Len(Ascii)} |-> 31 + (CHOOSE i \in 1..Len(Ascii) : Ascii[i] = c)]
Ord(c) == OrdTable[c]

(* a ^ b on 8-bit values *)
BitXor(a, b) ==
    LET bit(i) == ((a \div (2^i)) + (b \div (2^i))) % 2
    IN bit(0) + 2 * bit(1) + 4 * bit(2) + 8 * bit(3) + 16 * bit(4) + 32 * bit(5)
       + 64 * bit(6) + 128 * bit(7)

Digits == {"0", "1", "2", "3", "4", "5", "6", "7", "8", "9"}
DigitVal(c) == Ord(c) - 48
HexDigits == Digits \cup {"A", "B", "C", "D", "E", "F", "a", "b", "c", "d", "e", "f"}
HexVal(c) == IF c \in Digits THEN Ord(c) - 48
             ELSE IF Ord(c) >= 97 THEN Ord(c) - 87 ELSE Ord(c) - 55

(* str.strip(): what lies between the first and the last non-blank character *)
Strip(s) ==
    LET ns == {i \in 1..Len(s) : s[i] # " "}
    IN IF ns = {} THEN <<>>
       ELSE SubSeq(s, CHOOSE i \in ns : \A j \in ns : i <= j,
                      CHOOSE i \in ns : \A j \in ns : i >= j)

(* str.split(sep) for a one-character separator: the pieces between
   consecutive separators, as a sequence of sequences *)
Split(s, sep) ==
    LET P == {i \in 1..Len(s) : s[i] = sep}
        n == Cardinality(P)
        pos(k) == IF k = 0 THEN 0
                  ELSE IF k = n + 1 THEN Len(s) + 1
                  ELSE CHOOSE p \in P : Cardinality({q \in P : q < p}) = k - 1
    IN [k \in 1..(n + 1) |-> SubSeq(s, pos(k - 1) + 1, pos(k) - 1)]

Contains(s, c) == \E i \in 1..Len(s) : s[i] = c

(* A conversion's result: ok = FALSE stands for a raised ValueError *)
Val(v) == [ok |-> TRUE, v |-> v]
Err == [ok |-> FALSE, v |-> 0]

RECURSIVE DigitsValue(_, _)
DigitsValue(s, acc) ==
    IF Len(s) = 0 THEN acc ELSE DigitsValue(Tail(s), 10 * acc + DigitVal(Head(s)))
RECURSIVE HexValue(_, _)
HexValue(s, acc) ==
    IF Len(s) = 0 THEN acc ELSE HexValue(Tail(s), 16 * acc + HexVal(Head(s)))
AllIn(s, S) == \A i \in 1..Len(s) : s[i] \in S

HasSign(s) == Len(s) > 0 /\ Head(s) \in {"+", "-"}
Unsigned(s) == IF HasSign(s) THEN Tail(s) ELSE s
Signed(s, v) == IF HasSign(s) /\ Head(s) = "-" THEN 0 - v ELSE v

(* int(s): surrounding blanks, an optional sign, decimal digits *)
ParseInt(str) ==
    LET s == Strip(str)
        u == Unsigned(s)
    IN IF Len(u) > 0 /\ AllIn(u, Digits) THEN Val(Signed(s, DigitsValue(u, 0))) ELSE Err

(* int(s, 16): surrounding blanks, an optional sign, hexadecimal digits *)
ParseHex(str) ==
    LET s == Strip(str)
        u == Unsigned(s)
    IN IF Len(u) > 0 /\ AllIn(u, HexDigits) THEN Val(Signed(s, HexValue(u, 0))) ELSE Err

(* the first three decimals of a fraction, as thousandths *)
FracMilli(f) ==
    LET d(i) == IF i <= Len(f) THEN DigitVal(f[i]) ELSE 0
    IN 100 * d(1) + 10 * d(2) + d(3)

(* float(s), in thousandths: blanks, an optional sign, digits with at most
   one decimal point and at least one digit *)
ParseFloat(str) ==
    LET s == Strip(str)
        u == Unsigned(s)
        parts == Split(u, ".")
        ip == parts[1]
        fp == IF Len(parts) = 2 THEN parts[2] ELSE <<>>
    IN IF /\ Len(parts) <= 2
          /\ AllIn(ip, Digits) /\ AllIn(fp, Digits)
          /\ Len(ip) + Len(fp) > 0
       THEN Val(Signed(s, Scale * DigitsValue(ip, 0) + FracMilli(fp)))
       ELSE Err

----------------------------------------------------------------------------
(* NMEAParser (P1): parsers/nmea_parser.py *)

MAX_NMEA_LENGTH == 256
MIN_LATITUDE == -90
MAX_LATITUDE == 90
MIN_LONGITUDE == -180
MAX_LONGITUDE == 180

NoRec == <<>>
IsSet(r) == DOMAIN r # {}

(* The parser's own state, as one record *)
P1State(gps, soar, lgt, lst) ==
    [gps_position |-> gps, soaring_data |-> soar, last_gps_time |-> lgt, last_soaring_time |-> lst]
P1Init == P1State(NoRec, NoRec, 0, 0)

(* The outcome of parse_sentence: the value returned (ok), whether it raised
   instead of returning, and the parser's state afterwards *)
P1Result(ok, raised, st) == [ok |-> ok, raised |-> raised, st |-> st]
P1RejectClearing(st) == P1Result(FALSE, FALSE, [st EXCEPT !.gps_position = NoRec])
P1Reject(st) == P1Result(FALSE, FALSE, st)

_validate_sentence_length(sentence) == Len(sentence) <= MAX_NMEA_LENGTH

_validate_coordinates(latitude, longitude) ==
    /\ MIN_LATITUDE * Scale <= latitude /\ latitude <= MAX_LATITUDE * Scale
    /\ MIN_LONGITUDE * Scale <= longitude /\ longitude <= MAX_LONGITUDE * Scale

(* checksum ^= ord(char), for every char: bit i of the result is the parity
   of the number of characters whose code has bit i set *)
XorAll(s) ==
    LET parity(i) == Cardinality({j \in 1..Len(s) : (Ord(s[j]) \div (2^i)) % 2 = 1}) % 2
    IN parity(0) + 2 * parity(1) + 4 * parity(2) + 8 * parity(3) + 16 * parity(4)
       + 32 * parity(5) + 64 * parity(6) + 128 * parity(7)

_calculate_checksum(data) ==
    XorAll(IF Len(data) > 0 /\ Head(data) = "$" THEN Tail(data) ELSE data)

StartsWith(s, prefix) == Len(s) >= Len(prefix) /\ SubSeq(s, 1, Len(prefix)) = prefix

(* HHMMSS.sss -> seconds since midnight; None stands for "time.time() at the
   call" when the field is empty *)
ParseTimeField(time_str) ==
    IF Len(time_str) > 0
    THEN LET hours == ParseInt(Slice(time_str, 0, 2))
             minutes == ParseInt(Slice(time_str, 2, 4))
             seconds == ParseFloat(SliceFrom(time_str, 4))
         IN IF hours.ok /\ minutes.ok /\ seconds.ok
            THEN Val(hours.v * 3600 * Scale + minutes.v * 60 * Scale + seconds.v)
            ELSE Err
    ELSE Val(None)
TimeOrNow(ts, t) == IF ts = None THEN t * Scale ELSE ts

(* DDMM.mmmm / DDDMM.mmmm with a hemisphere letter -> signed degrees;
   deglen is 2 for latitude and 3 for longitude, neg the negative hemisphere *)
ParseCoordinate(str, dir, deglen, neg) ==
    IF Len(str) > 0 /\ Len(dir) > 0
    THEN LET deg == ParseFloat(Slice(str, 0, deglen))
             min == ParseFloat(SliceFrom(str, deglen))
             mag == deg.v + (min.v \div 60)
         IN IF deg.ok /\ min.ok
            THEN Val(IF dir = <<neg>> THEN 0 - mag ELSE mag)
            ELSE Err
    ELSE Val(0)

IntOrZero(str) == IF Len(str) > 0 THEN ParseInt(str) ELSE Val(0)
FloatOrZero(str) == IF Len(str) > 0 THEN ParseFloat(str) ELSE Val(0)
FloatOrNone(str) == IF Len(str) > 0 /\ Len(Strip(str)) > 0 THEN ParseFloat(str) ELSE Val(None)

(* What the text of a sentence comes to, before the parser's state is touched:
   rejected (return False), raised (an exception leaves parse_sentence), or
   the decoded fields of a recognized sentence *)
Rejected == [kind |-> "reject"]
Raised == [kind |-> "raise"]

(* _parse_gpgga up to its validation: split, decode, validate *)
GGAFields(sentence) ==
    LET fields == Split(sentence, ",")
    IN IF Len(fields) < 15 THEN Rejected
       ELSE
         LET timestamp == ParseTimeField(fields[2])
             latitude == ParseCoordinate(fields[3], fields[4], 2, "S")
             longitude == ParseCoordinate(fields[5], fields[6], 3, "W")
             fix_quality == IntOrZero(fields[7])
             sats == IntOrZero(fields[8])
             alt_msl == FloatOrZero(fields[10])
         IN IF ~(timestamp.ok /\ latitude.ok /\ longitude.ok /\ fix_quality.ok
                 /\ sats.ok /\ alt_msl.ok)
            THEN Rejected      \* ValueError, caught in _parse_gpgga
            ELSE IF ~_validate_coordinates(latitude.v, longitude.v) THEN Rejected
            ELSE [kind |-> "GPGGA", timestamp |-> timestamp.v, latitude |-> latitude.v,
                  longitude |-> longitude.v, fix_quality |-> fix_quality.v,
                  sats |-> sats.v, alt_msl |-> alt_msl.v]

(* _parse_gprmc up to its validation *)
RMCFields(sentence) ==
    LET fields == Split(sentence, ",")
    IN IF Len(fields) < 12 THEN Rejected
       ELSE
         LET timestamp == ParseTimeField(fields[2])
             status == fields[3]
             latitude == ParseCoordinate(fields[4], fields[5], 2, "S")
             longitude == ParseCoordinate(fields[6], fields[7], 3, "W")
             ground_speed == FloatOrZero(fields[8])
             track_true == FloatOrZero(fields[9])
         IN IF ~(timestamp.ok /\ latitude.ok /\ longitude.ok /\ ground_speed.ok
                 /\ track_true.ok)
            THEN Rejected      \* ValueError, caught in _parse_gprmc
            ELSE IF ~_validate_coordinates(latitude.v, longitude.v) THEN Rejected
            ELSE [kind |-> "GPRMC", timestamp |-> timestamp.v, latitude |-> latitude.v,
                  longitude |-> longitude.v, ground_speed |-> ground_speed.v,
                  track_true |-> track_true.v, is_valid |-> (status = <<"A">>)]

FieldOrEmpty(fields, i) == IF Len(fields) > i THEN fields[i + 1] ELSE <<>>

(* _parse_lxwp0 up to its validation (which only warns) *)
LXWP0Fields(sentence) ==
    LET parts == Split(sentence, "*")
        fields == Split(parts[1], ",")
    IN IF Len(fields) < 11 THEN Rejected
       ELSE
         LET ias == FloatOrZero(fields[3])
             baro_alt == FloatOrZero(fields[4])
             vario == FloatOrZero(fields[5])
             avg_vario == FloatOrNone(FieldOrEmpty(fields, 5))
             heading == FloatOrZero(FieldOrEmpty(fields, 11))
             track == FloatOrNone(FieldOrEmpty(fields, 12))
             turn_rate == FloatOrNone(FieldOrEmpty(fields, 13))
         IN IF ~(ias.ok /\ baro_alt.ok /\ vario.ok /\ avg_vario.ok /\ heading.ok
                 /\ track.ok /\ turn_rate.ok)
            THEN Rejected      \* ValueError, caught in _parse_lxwp0
            ELSE [kind |-> "LXWP0", ias |-> ias.v, baro_alt |-> baro_alt.v, vario |-> vario.v,
                  avg_vario |-> avg_vario.v, heading |-> heading.v, track |-> track.v,
                  turn_rate |-> turn_rate.v]

(* The checksum test of parse_sentence: "pass", "fail" (return False) or
   "raise" (int(.., 16) raises ValueError, which nothing in the parser catches) *)
ChecksumTest(sentence) ==
    IF ~Contains(sentence, "*") THEN "pass"
    ELSE LET parts == Split(sentence, "*")
         IN IF Len(parts) = 2 /\ Len(parts[2]) >= 2
            THEN LET checksum == ParseHex(Slice(parts[2], 0, 2))
                 IN IF ~checksum.ok THEN "raise"
                    ELSE IF checksum.v # _calculate_checksum(parts[1]) THEN "fail"
                    ELSE "pass"
            ELSE "pass"

(* parse_sentence as far as the text alone decides it *)
SentenceFields(raw) ==
    LET sentence == Strip(raw)
        cs == ChecksumTest(sentence)
    IN IF Len(sentence) = 0 THEN Rejected
       ELSE IF ~_validate_sentence_length(sentence) THEN Rejected
       ELSE IF cs = "raise" THEN Raised
       ELSE IF cs = "fail" THEN Rejected
       ELSE IF StartsWith(sentence, <<"$", "G", "P", "G", "G", "A">>) THEN GGAFields(sentence)
       ELSE IF StartsWith(sentence, <<"$", "G", "P", "R", "M", "C">>) THEN RMCFields(sentence)
       ELSE IF StartsWith(sentence, <<"$", "L", "X", "W", "P", "0">>) THEN LXWP0Fields(sentence)
       ELSE Rejected

GPSPosition(ts, lat, lon, alt, gs, trk, q, sats, valid) ==
    [timestamp |-> ts, latitude |-> lat, longitude |-> lon, altitude_msl |-> alt,
     ground_speed |-> gs, track_true |-> trk, fix_quality |-> q, satellites |-> sats,
     valid |-> valid]

SoaringData(ts, ias, baro, vario, avg, hdg, trk, turn) ==
    [timestamp |-> ts, ias |-> ias, baro_altitude |-> baro, vario |-> vario,
     avg_vario |-> avg, heading |-> hdg, track_bearing |-> trk, turn_rate |-> turn,
     valid |-> TRUE]

(* _parse_gpgga from "Update GPS position": create or update the GPSPosition *)
_parse_gpgga_always_valid(st, f, t) ==
    LET old == st.gps_position
    IN P1Result(TRUE, FALSE,
         [st EXCEPT
            !.gps_position =
               GPSPosition(TimeOrNow(f.timestamp, t), f.latitude, f.longitude, f.alt_msl,
                           IF IsSet(old) THEN old.ground_speed ELSE 0,
                           IF IsSet(old) THEN old.track_true ELSE 0,
                           f.fix_quality, f.sats, TRUE),
            !.last_gps_time = t])
_parse_gpgga_zeroing_speed(st, f, t) ==
    P1Result(TRUE, FALSE,
         [st EXCEPT
            !.gps_position =
               GPSPosition(TimeOrNow(f.timestamp, t), f.latitude, f.longitude, f.alt_msl,
                           0, 0, f.fix_quality, f.sats, f.fix_quality > 0),
            !.last_gps_time = t])
_parse_gpgga(st, f, t) ==
    LET old == st.gps_position
    IN P1Result(TRUE, FALSE,
         [st EXCEPT
            !.gps_position =
               IF ~IsSet(old)
               THEN GPSPosition(TimeOrNow(f.timestamp, t), f.latitude, f.longitude, f.alt_msl,
                                0, 0, f.fix_quality, f.sats, f.fix_quality > 0)
               ELSE GPSPosition(TimeOrNow(f.timestamp, t), f.latitude, f.longitude, f.alt_msl,
                                old.ground_speed, old.track_true,
                                f.fix_quality, f.sats, f.fix_quality > 0),
            !.last_gps_time = t])

(* _parse_gprmc from "Create or update GPS position" *)
_parse_gprmc_overriding(st, f, t) ==
    LET old == st.gps_position
    IN P1Result(TRUE, FALSE,
         [st EXCEPT
            !.gps_position =
               GPSPosition(TimeOrNow(f.timestamp, t), f.latitude, f.longitude,
                           IF IsSet(old) THEN old.altitude_msl ELSE 0,
                           f.ground_speed, f.track_true,
                           IF IsSet(old) THEN old.fix_quality ELSE IF f.is_valid THEN 1 ELSE 0,
                           IF IsSet(old) THEN old.satellites ELSE 0,
                           f.is_valid),
            !.last_gps_time = t])
_parse_gprmc(st, f, t) ==
    LET old == st.gps_position
    IN P1Result(TRUE, FALSE,
         [st EXCEPT
            !.gps_position =
               IF ~IsSet(old)
               THEN GPSPosition(TimeOrNow(f.timestamp, t), f.latitude, f.longitude, 0,
                                f.ground_speed, f.track_true,
                                IF f.is_valid THEN 1 ELSE 0, 0, f.is_valid)
               ELSE GPSPosition(TimeOrNow(f.timestamp, t), f.latitude, f.longitude,
                                old.altitude_msl, f.ground_speed, f.track_true,
                                old.fix_quality, old.satellites,
                                IF ~f.is_valid THEN FALSE ELSE old.valid),
            !.last_gps_time = t])

(* _parse_lxwp0 from "Use current time or GPS time if available" *)
_parse_lxwp0(st, f, t) ==
    LET timestamp == IF IsSet(st.gps_position) THEN st.gps_position.timestamp ELSE t * Scale
    IN P1Result(TRUE, FALSE,
         [st EXCEPT
            !.soaring_data = SoaringData(timestamp, f.ias, f.baro_alt, f.vario,
                                         f.avg_vario, f.heading, f.track, f.turn_rate),
            !.last_soaring_time = t])

(* parse_sentence, given what the text came to *)
ApplyFields(st, f, t) ==
    CASE f.kind = "reject" -> P1Reject(st)
      [] f.kind = "raise" -> P1Result(FALSE, TRUE, st)
      [] f.kind = "GPGGA" -> _parse_gpgga(st, f, t)
      [] f.kind = "GPRMC" -> _parse_gprmc(st, f, t)
      [] f.kind = "LXWP0" -> _parse_lxwp0(st, f, t)

(* NMEAParser.is_data_fresh and get_combined_data; gps_valid is a Python bool,
   which is the number 1 or 0 *)
P1Fresh(last, t) == (t - last) < 5

P1Combined(st, t) ==
    LET g == st.gps_position
        s == st.soaring_data
        gpsPart == IF IsSet(g) /\ P1Fresh(st.last_gps_time, t)
                   THEN [latitude |-> g.latitude, longitude |-> g.longitude,
                         altitude_msl |-> g.altitude_msl, ground_speed |-> g.ground_speed,
                         track_true |-> g.track_true,
                         gps_valid |-> IF g.valid THEN 1 ELSE 0,
                         fix_quality |-> g.fix_quality, satellites |-> g.satellites]
                   ELSE EmptyDict
        soarPart == IF IsSet(s) /\ P1Fresh(st.last_soaring_time, t)
                    THEN [ias |-> s.ias, baro_altitude |-> s.baro_altitude, vario |-> s.vario,
                          avg_vario |-> s.avg_vario, heading |-> s.heading,
                          track_bearing |-> s.track_bearing, turn_rate |-> s.turn_rate]
                    ELSE EmptyDict
    IN Update(gpsPart, soarPart)

----------------------------------------------------------------------------
(* Input text: what the simulator can put on the serial line *)

Chars_GPGGA == <<"$", "G", "P", "G", "G", "A">>
Chars_GPRMC == <<"$", "G", "P", "R", "M", "C">>
Chars_LXWP0 == <<"$", "L", "X", "W", "P", "0">>
Chars_GPGSV == <<"$", "G", "P", "G", "S", "V">>
Chars_Time1 == <<"1", "7", "0", "0", "0", "0", ".", "0", "2", "1">>
Chars_Time2 == <<"1", "7", "0", "0", "0", "1", ".", "0", "2", "1">>
Chars_Lat45 == <<"4", "5", "5", "3", ".", "3", "7", "0", "9">>
Chars_Lat46 == <<"4", "6", "0", "0", ".", "0", "0", "0", "0">>
Chars_Lat95 == <<"9", "5", "5", "3", ".", "3", "7", "0", "9">>
Chars_Lon013 == <<"0", "1", "3", "5", "3", ".", "4", "3", "5", "7">>
Chars_Lon190 == <<"1", "9", "0", "5", "3", ".", "4", "3", "5", "7">>
Chars_Alt117 == <<"1", "1", "7", ".", "4">>
Chars_Alt1500 == <<"1", "5", "0", "0", ".", "0">>
Chars_Speed55 == <<"5", "5", ".", "0", "0">>
Chars_Course267 == <<"2", "6", "7", ".", "4", "5">>
Chars_NotANumber == <<"x", "1">>

RECURSIVE Join(_, _)
Join(fields, sep) ==
    IF Len(fields) = 0 THEN <<>>
    ELSE IF Len(fields) = 1 THEN fields[1]
    ELSE fields[1] \o <<sep>> \o Join(Tail(fields), sep)

HexChars == <<"0", "1", "2", "3", "4", "5", "6", "7", "8", "9", "A", "B", "C", "D", "E", "F">>
Hex2(n) == <<HexChars[(n \div 16) + 1], HexChars[(n % 16) + 1]>>

GGABody(time, lat, latdir, lon, londir, quality, sats, alt) ==
    Join(<<Chars_GPGGA, time, lat, latdir, lon, londir, quality, sats, <<"1", "0">>, alt,
           <<"M">>, <<>>, <<>>, <<>>, <<>>, <<"0", "0", "0", "0">> >>, ",")
RMCBody(time, status, lat, latdir, lon, londir, speed, course) ==
    Join(<<Chars_GPRMC, time, status, lat, latdir, lon, londir, speed, course,
           <<>>, <<>>, <<>>, <<>> >>, ",")
LXWP0Body(ias, baro, vario, heading, track, turn) ==
    Join(<<Chars_LXWP0, <<"Y">>, ias, baro, vario, <<>>, <<>>, <<>>, <<>>, <<>>, <<>>,
           heading, track, turn>>, ",")

(* What can follow the body: nothing, or '*' and a checksum field, well formed or not *)
TailKinds == {"none", "good", "wrong", "one_digit", "no_digit", "two_stars", "not_hex", "signed"}
WithTail(body, kind) ==
    LET cs == _calculate_checksum(body)
        wrong == BitXor(cs, 255)
    IN CASE kind = "none" -> body
         [] kind = "good" -> body \o <<"*">> \o Hex2(cs)
         [] kind = "wrong" -> body \o <<"*">> \o Hex2(wrong)
         [] kind = "one_digit" -> body \o <<"*", "F">>
         [] kind = "no_digit" -> body \o <<"*">>
         [] kind = "two_stars" -> body \o <<"*">> \o Hex2(wrong) \o <<"*">> \o Hex2(cs)
         [] kind = "not_hex" -> body \o <<"*", "G", "G">>
         [] kind = "signed" -> body \o <<"*", "+", "F">>

(* Sentence bodies (everything before a '*') *)
Body_GGA_Fix == GGABody(Chars_Time1, Chars_Lat45, <<"N">>, Chars_Lon013, <<"E">>, <<"1">>, <<"1", "2">>, Chars_Alt117)
Body_GGA_NoFix == GGABody(Chars_Time2, Chars_Lat46, <<"S">>, Chars_Lon013, <<"W">>, <<"0">>, <<"0">>, Chars_Alt1500)
Body_GGA_BadLat == GGABody(Chars_Time2, Chars_Lat95, <<"N">>, Chars_Lon013, <<"E">>, <<"1">>, <<"1", "2">>, Chars_Alt1500)
Body_GGA_BadNum == GGABody(Chars_Time2, Chars_Lat46, <<"N">>, Chars_Lon013, <<"E">>, <<"1">>, <<"1", "2">>, Chars_NotANumber)
Body_GGA_Short == Join(<<Chars_GPGGA, Chars_Time2, Chars_Lat46, <<"N">> >>, ",")
Body_RMC_Active == RMCBody(Chars_Time1, <<"A">>, Chars_Lat45, <<"N">>, Chars_Lon013, <<"E">>, Chars_Speed55, Chars_Course267)
Body_RMC_Void == RMCBody(Chars_Time2, <<"V">>, Chars_Lat46, <<"N">>, Chars_Lon013, <<"E">>, <<>>, <<>>)
Body_RMC_BadLon == RMCBody(Chars_Time2, <<"A">>, Chars_Lat46, <<"N">>, Chars_Lon190, <<"E">>, Chars_Speed55, Chars_Course267)
Body_LXWP0 == LXWP0Body(<<"1", "7", ".", "5">>, Chars_Alt117, <<"0", ".", "5", "0">>, <<"2", "6", "8">>, <<"2", "6", "8">>, <<"0", ".", "0">>)
Body_LXWP0_BadNum == LXWP0Body(Chars_NotANumber, Chars_Alt117, <<"0", ".", "5", "0">>, <<"2", "6", "8">>, <<>>, <<>>)
Body_GSV == Join(<<Chars_GPGSV, <<"3">>, <<"1">>, <<"1", "2">> >>, ",")
(* a $GPGGA of 300 empty fields: longer than MAX_NMEA_LENGTH *)
OverLongLength == 300
Body_TooLong == Chars_GPGGA \o [i \in 1..OverLongLength |-> ","]

(* The sentences given to parse_sentence on its own *)
NmeaSentences ==
    {WithTail(Body_GGA_Fix, k) : k \in TailKinds}
    \cup {WithTail(b, "good") : b \in {Body_GGA_NoFix, Body_GGA_BadLat, Body_GGA_BadNum,
                                       Body_GGA_Short, Body_RMC_Active, Body_RMC_Void,
                                       Body_RMC_BadLon, Body_LXWP0, Body_LXWP0_BadNum,
                                       Body_GSV}}
    \cup {WithTail(Body_LXWP0, "one_digit"), Body_TooLong, <<>>, <<" ">>}

----------------------------------------------------------------------------
(* parse_sentence.  What the text comes to does not depend on the parser's
   state: it is computed once for each input text of the model *)
FieldsTable == [raw \in NmeaSentences |-> SentenceFields(raw)]
parse_sentence(st, raw, t) == ApplyFields(st, FieldsTable[raw], t)

----------------------------------------------------------------------------
(* CondorUDPParser (P2): parsers/condor_parser.py *)

MAX_UDP_MESSAGE_LENGTH == 4096

_validate_message_length(message) == Len(message) <= MAX_UDP_MESSAGE_LENGTH

(* [a-zA-Z_] *)
Letters == {Ascii[i] : i \in 34..59} \cup {Ascii[i] : i \in 66..91} \cup {"_"}

(* the end of the longest run of characters of S that starts at i (i - 1 if
   s[i] is not in S), and the start of the longest run that ends at i *)
RunEnd(s, i, S) ==
    LET bad == {j \in i..Len(s) : s[j] \notin S}
    IN IF bad = {} THEN Len(s) ELSE (CHOOSE j \in bad : \A k \in bad : j <= k) - 1
RunStart(s, i, S) ==
    LET bad == {j \in 1..i : s[j] \notin S}
    IN IF bad = {} THEN 1 ELSE (CHOOSE j \in bad : \A k \in bad : j >= k) + 1

(* [-+]?[0-9]*\.?[0-9]+(?:[eE][-+]?[0-9]+)? matched at i: the index of the
   last character of the match, 0 if there is no match *)
ValueEnd(s, i) ==
    LET a == IF i <= Len(s) /\ s[i] \in {"+", "-"} THEN i + 1 ELSE i
        d1 == RunEnd(s, a, Digits)
        hasFrac == d1 + 2 <= Len(s) /\ s[d1 + 1] = "." /\ s[d1 + 2] \in Digits
        m == IF hasFrac THEN RunEnd(s, d1 + 2, Digits) ELSE IF d1 >= a THEN d1 ELSE 0
        x == m + 1
        xs == IF x + 1 <= Len(s) /\ s[x + 1] \in {"+", "-"} THEN x + 2 ELSE x + 1
        hasExp == m > 0 /\ xs <= Len(s) /\ s[x] \in {"e", "E"} /\ s[xs] \in Digits
    IN IF m = 0 THEN 0 ELSE IF hasExp THEN RunEnd(s, xs, Digits) ELSE m

(* kv_pattern.findall(message): a match is an '=' with a letter before it and
   a number after it; its key is the run of letters that ends before the '=' *)
KvMatches(message) ==
    {e \in 2..Len(message) : /\ message[e] = "="
                             /\ message[e - 1] \in Letters
                             /\ ValueEnd(message, e + 1) > 0}
KvKey(message, e) == SubSeq(message, RunStart(message, e - 1, Letters), e - 1)
KvValue(message, e) == SubSeq(message, e + 1, ValueEnd(message, e + 1))

(* int(value_str) or float(value_str), in thousandths *)
_convert_value(value_str) ==
    LET epos == {i \in 1..Len(value_str) : value_str[i] \in {"e", "E"}}
    IN IF epos = {}
       THEN LET r == ParseFloat(value_str) IN IF r.ok THEN r.v ELSE 0
       ELSE LET i == CHOOSE i \in epos : TRUE
                m == ParseFloat(SubSeq(value_str, 1, i - 1))
                x == ParseInt(SubSeq(value_str, i + 1, Len(value_str)))
            IN IF ~(m.ok /\ x.ok) THEN 0
               ELSE IF x.v >= 0 THEN m.v * (10 ^ x.v) ELSE m.v \div (10 ^ (0 - x.v))

(* {key: self._convert_value(value) for key, value in pairs}: a key's last
   match wins *)
DataDict(message) ==
    LET E == KvMatches(message)
        last(k) == CHOOSE e \in E : /\ KvKey(message, e) = k
                                    /\ \A f \in E : KvKey(message, f) = k => f <= e
    IN [k \in {KvKey(message, e) : e \in E} |-> _convert_value(KvValue(message, last(k)))]

(* The keys of a datagram, as text *)
KeyChars ==
    [yaw |-> <<"y", "a", "w">>, pitch |-> <<"p", "i", "t", "c", "h">>,
     bank |-> <<"b", "a", "n", "k">>,
     quaternionx |-> <<"q", "u", "a", "t", "e", "r", "n", "i", "o", "n", "x">>,
     quaterniony |-> <<"q", "u", "a", "t", "e", "r", "n", "i", "o", "n", "y">>,
     quaternionz |-> <<"q", "u", "a", "t", "e", "r", "n", "i", "o", "n", "z">>,
     quaternionw |-> <<"q", "u", "a", "t", "e", "r", "n", "i", "o", "n", "w">>,
     rollrate |-> <<"r", "o", "l", "l", "r", "a", "t", "e">>,
     pitchrate |-> <<"p", "i", "t", "c", "h", "r", "a", "t", "e">>,
     yawrate |-> <<"y", "a", "w", "r", "a", "t", "e">>,
     yawstringangle |-> <<"y", "a", "w", "s", "t", "r", "i", "n", "g", "a", "n", "g", "l", "e">>,
     time |-> <<"t", "i", "m", "e">>,
     airspeed |-> <<"a", "i", "r", "s", "p", "e", "e", "d">>,
     altitude |-> <<"a", "l", "t", "i", "t", "u", "d", "e">>,
     vario |-> <<"v", "a", "r", "i", "o">>, evario |-> <<"e", "v", "a", "r", "i", "o">>,
     nettovario |-> <<"n", "e", "t", "t", "o", "v", "a", "r", "i", "o">>,
     ax |-> <<"a", "x">>, ay |-> <<"a", "y">>, az |-> <<"a", "z">>,
     vx |-> <<"v", "x">>, vy |-> <<"v", "y">>, vz |-> <<"v", "z">>,
     gforce |-> <<"g", "f", "o", "r", "c", "e">>, height |-> <<"h", "e", "i", "g", "h", "t">>,
     wheelheight |-> <<"w", "h", "e", "e", "l", "h", "e", "i", "g", "h", "t">>,
     turbulencestrength |-> <<"t", "u", "r", "b", "u", "l", "e", "n", "c", "e",
                              "s", "t", "r", "e", "n", "g", "t", "h">>,
     surfaceroughness |-> <<"s", "u", "r", "f", "a", "c", "e",
                            "r", "o", "u", "g", "h", "n", "e", "s", "s">>,
     flaps |-> <<"f", "l", "a", "p", "s">>, MC |-> <<"M", "C">>,
     water |-> <<"w", "a", "t", "e", "r">>,
     radiofrequency |-> <<"r", "a", "d", "i", "o", "f", "r", "e", "q", "u", "e", "n", "c", "y">>]

InDict(data_dict, name) == KeyChars[name] \in DOMAIN data_dict
(* data_dict.get(name, default) *)
DictGet(data_dict, name, default) ==
    IF InDict(data_dict, name) THEN data_dict[KeyChars[name]] ELSE default

P2State(att, mot, set, ldt) ==
    [attitude_data |-> att, motion_data |-> mot, settings_data |-> set, last_data_time |-> ldt]
P2Init == P2State(NoRec, NoRec, NoRec, 0)

_update_attitude_data(st, d, t) ==
    IF ~\E f \in {"yaw", "pitch", "bank", "quaternionx"} : InDict(d, f) THEN st
    ELSE [st EXCEPT !.attitude_data =
            [timestamp |-> t * Scale,
             yaw |-> DictGet(d, "yaw", 0), pitch |-> DictGet(d, "pitch", 0),
             bank |-> DictGet(d, "bank", 0),
             quaternion_x |-> DictGet(d, "quaternionx", 0),
             quaternion_y |-> DictGet(d, "quaterniony", 0),
             quaternion_z |-> DictGet(d, "quaternionz", 0),
             quaternion_w |-> DictGet(d, "quaternionw", Scale),
             roll_rate |-> DictGet(d, "rollrate", 0),
             pitch_rate |-> DictGet(d, "pitchrate", 0),
             yaw_rate |-> DictGet(d, "yawrate", 0),
             yawstring_angle |-> DictGet(d, "yawstringangle", 0)]]

_update_motion_data(st, d, t) ==
    IF ~\E f \in {"airspeed", "altitude", "vario"} : InDict(d, f) THEN st
    ELSE [st EXCEPT !.motion_data =
            [timestamp |-> t * Scale,
             time |-> DictGet(d, "time", t * Scale),
             airspeed |-> DictGet(d, "airspeed", 0), altitude |-> DictGet(d, "altitude", 0),
             vario |-> DictGet(d, "vario", 0), evario |-> DictGet(d, "evario", 0),
             netto_vario |-> DictGet(d, "nettovario", 0),
             ax |-> DictGet(d, "ax", 0), ay |-> DictGet(d, "ay", 0), az |-> DictGet(d, "az", 0),
             vx |-> DictGet(d, "vx", 0), vy |-> DictGet(d, "vy", 0), vz |-> DictGet(d, "vz", 0),
             g_force |-> DictGet(d, "gforce", Scale),
             height |-> DictGet(d, "height", 0),
             wheel_height |-> DictGet(d, "wheelheight", 0),
             turbulence_strength |-> DictGet(d, "turbulencestrength", 0),
             surface_roughness |-> DictGet(d, "surfaceroughness", 0)]]

_update_settings_data(st, d, t) ==
    IF ~\E f \in {"flaps", "MC", "water", "radiofrequency"} : InDict(d, f) THEN st
    ELSE [st EXCEPT !.settings_data =
            [timestamp |-> t * Scale,
             flaps |-> DictGet(d, "flaps", 0), mc |-> DictGet(d, "MC", 0),
             water |-> DictGet(d, "water", 0),
             radio_frequency |-> DictGet(d, "radiofrequency", 123500)]]

(* parse_message as far as the text alone decides it: rejected (return
   False), or the dictionary of its pairs *)
MessageFields(message) ==
    IF Len(message) = 0 THEN Rejected
    ELSE IF ~_validate_message_length(message) THEN Rejected
    ELSE IF KvMatches(message) = {} THEN Rejected
    ELSE [kind |-> "pairs", data_dict |-> DataDict(message)]

(* parse_message, given what the text came to *)
ApplyMessage(st, f, t) ==
    IF f.kind = "reject" THEN [ok |-> FALSE, st |-> st]
    ELSE [ok |-> TRUE,
          st |-> [_update_settings_data(
                    _update_motion_data(
                      _update_attitude_data(st, f.data_dict, t), f.data_dict, t),
                    f.data_dict, t)
                  EXCEPT !.last_data_time = t]]

(* rad * 180.0 / 3.14159265358979 and mps * 1.94384, on thousandths *)
_rad_to_deg(rad) == (rad * 57296) \div 1000
_mps_to_knots(mps) == (mps * 1944) \div 1000 - (mps * 16) \div 100000

(* CondorUDPParser.is_data_fresh and get_combined_data *)
P2Fresh(st, t) == (t - st.last_data_time) < 5

P2Combined(st, t) ==
    LET a == st.attitude_data
        m == st.motion_data
        s == st.settings_data
        attPart == IF IsSet(a)
                   THEN [yaw_deg |-> _rad_to_deg(a.yaw), pitch_deg |-> _rad_to_deg(a.pitch),
                         bank_deg |-> _rad_to_deg(a.bank),
                         quaternion_x |-> a.quaternion_x, quaternion_y |-> a.quaternion_y,
                         quaternion_z |-> a.quaternion_z, quaternion_w |-> a.quaternion_w,
                         roll_rate_deg |-> _rad_to_deg(a.roll_rate),
                         pitch_rate_deg |-> _rad_to_deg(a.pitch_rate),
                         yaw_rate_deg |-> _rad_to_deg(a.yaw_rate),
                         yawstring_angle_deg |-> _rad_to_deg(a.yawstring_angle)]
                   ELSE EmptyDict
        motPart == IF IsSet(m)
                   THEN [sim_time |-> m.time, ias_kts |-> _mps_to_knots(m.airspeed),
                         altitude_m |-> m.altitude, vario_mps |-> m.vario,
                         evario_mps |-> m.evario, netto_vario_mps |-> m.netto_vario,
                         accel_x |-> m.ax, accel_y |-> m.ay, accel_z |-> m.az,
                         vel_x |-> m.vx, vel_y |-> m.vy, vel_z |-> m.vz,
                         g_force |-> m.g_force, height_agl |-> m.height,
                         wheel_height |-> m.wheel_height,
                         turbulence |-> m.turbulence_strength,
                         surface_roughness |-> m.surface_roughness]
                   ELSE EmptyDict
        setPart == IF IsSet(s)
                   THEN [flaps |-> s.flaps, mc_setting |-> s.mc, water_ballast |-> s.water,
                         radio_frequency |-> s.radio_frequency]
                   ELSE EmptyDict
    IN IF ~P2Fresh(st, t) THEN EmptyDict
       ELSE Update(Update(attPart, motPart), setPart)

(* Input text: what the simulator can put in a UDP datagram.  "LF" stands for
   the line feed between two lines *)
KvLine(name, value) == KeyChars[name] \o <<"=">> \o value
Dgram_Full1 ==
    Join(<<KvLine("yaw", <<"1", ".", "0">>), KvLine("pitch", <<"0", ".", "0", "5">>),
           KvLine("bank", <<"-", "0", ".", "1">>), KvLine("airspeed", <<"3", "0", ".", "5">>),
           KvLine("altitude", <<"1", "5", "1", "0">>), KvLine("vario", <<"3", ".", "5">>),
           KvLine("flaps", <<"2">>)>>, "LF")
Dgram_Full2 ==
    Join(<<KvLine("yaw", <<"-", "1", ".", "0">>), KvLine("airspeed", <<"4", "0">>),
           KvLine("altitude", <<"1", "5", "2", "0", ".", "5">>),
           KvLine("vario", <<"-", "1", "5", "e", "-", "1">>)>>, "LF")
Dgram_Attitude == KvLine("yaw", <<"2", ".", "0">>)
Dgram_Motion == KvLine("altitude", <<"1", "6", "0", "0">>)
Dgram_Unknown == <<"f", "o", "o", "=", "1">>
Dgram_Garbage == <<"h", "e", "l", "l", "o", "=", "LF", "=", "1">>
Dgram_TooLong == [i \in 1..(MAX_UDP_MESSAGE_LENGTH + 1) |-> "x"]

KvDatagrams ==
    {Dgram_Full1, Dgram_Full2, Dgram_Attitude, Dgram_Motion, Dgram_Unknown,
     Dgram_Garbage, Dgram_TooLong, <<>>}

(* parse_message.  What the text comes to does not depend on the parser's
   state: it is computed once for each input text of the model *)
MessageTable == [message \in KvDatagrams |-> MessageFields(message)]
parse_message(st, message, t) == ApplyMessage(st, MessageTable[message], t)

----------------------------------------------------------------------------
(* SimData (M): core/sim_data.py.  Clock readings kept in a field of their own
   (last_update_time) are whole seconds; a "timestamp" stored among the data
   is in thousandths like every other value of a dictionary *)

DATA_FRESHNESS_THRESHOLD == 5
HISTORY_MAX_SIZE == 20
HISTORY_MAX_AGE == 60
HISTORY_CLEANUP_INTERVAL == 10

Restrict(d, S) == [k \in S \cap DOMAIN d |-> d[k]]

(* DataSourceStatus *)
DataSourceStatus ==
    [connected |-> FALSE, last_update_time |-> 0, update_count |-> 0, error_count |-> 0]
is_fresh(source, t) == (t - source.last_update_time) < DATA_FRESHNESS_THRESHOLD
StatusUpdate(source, t) ==
    [source EXCEPT !.last_update_time = t, !.update_count = @ + 1, !.connected = TRUE]
StatusDisconnect(source) == [source EXCEPT !.connected = FALSE, !.last_update_time = 0]

(* SimData.__init__ *)
SimInit ==
    [_data |-> EmptyDict,
     _sources |-> [nmea |-> DataSourceStatus, condor_udp |-> DataSourceStatus],
     _history |-> [position |-> <<>>, attitude |-> <<>>, motion |-> <<>>],
     _update_counter |-> 0,
     _source_fields |-> [nmea |-> {}, condor_udp |-> {}],
     _last_update_time |-> 0]

_add_to_history_keeping_oldest(history, category, entry) ==
    LET appended == Append(history[category], entry)
    IN [history EXCEPT ![category] =
          IF Len(appended) > HISTORY_MAX_SIZE THEN history[category] ELSE appended]
_add_to_history(history, category, entry) ==
    LET appended == Append(history[category], entry)
    IN [history EXCEPT ![category] =
          IF Len(appended) > HISTORY_MAX_SIZE THEN Tail(appended) ELSE appended]

_cleanup_old_history(history, t) ==
    [category \in DOMAIN history |->
        SelectSeq(history[category],
                  LAMBDA entry : t * Scale - entry.timestamp < HISTORY_MAX_AGE * Scale)]

position_fields ==
    {"latitude", "longitude", "altitude_msl", "ground_speed", "track_true",
     "fix_quality", "satellites", "gps_valid"}
soaring_fields ==
    {"ias", "baro_altitude", "vario", "avg_vario", "heading", "track_bearing", "turn_rate"}

_merge_nmea_data(m, nmea_data, t) ==
    LET hasPosition == Has(nmea_data, "latitude") /\ Has(nmea_data, "longitude")
        position == Put(Restrict(nmea_data, position_fields), "timestamp", t * Scale)
        data1 == IF hasPosition THEN Update(m._data, position) ELSE m._data
        hist1 == IF hasPosition THEN _add_to_history(m._history, "position", position)
                 ELSE m._history
        data2 == Update(data1, Restrict(nmea_data, soaring_fields))
        attitude == [heading |-> nmea_data["heading"], timestamp |-> t * Scale]
        hist2 == IF Has(nmea_data, "heading") THEN _add_to_history(hist1, "attitude", attitude)
                 ELSE hist1
    IN [m EXCEPT !._data = data2, !._history = hist2]

attitude_fields ==
    {"yaw_deg", "pitch_deg", "bank_deg", "quaternion_x", "quaternion_y", "quaternion_z",
     "quaternion_w", "roll_rate_deg", "pitch_rate_deg", "yaw_rate_deg", "yawstring_angle_deg"}
motion_fields ==
    {"sim_time", "ias_kts", "altitude_m", "vario_mps", "evario_mps", "netto_vario_mps",
     "accel_x", "accel_y", "accel_z", "vel_x", "vel_y", "vel_z", "g_force", "height_agl",
     "wheel_height", "turbulence", "surface_roughness"}
settings_fields == {"flaps", "mc_setting", "water_ballast", "radio_frequency"}

(* MotionKey without its tests of what the snapshot already holds *)
MotionKeyUnguarded(data, field) ==
    IF field = "ias_kts" THEN "ias"
    ELSE IF field = "altitude_m" THEN "altitude_msl"
    ELSE IF field = "vario_mps" THEN "vario"
    ELSE field

(* The key of _data that a motion field of a datagram is stored under *)
MotionKey(data, field) ==
    IF field = "ias_kts" /\ ~Has(data, "ias") THEN "ias"
    ELSE IF field = "altitude_m" /\ ~Has(data, "altitude_msl") THEN "altitude_msl"
    ELSE IF field = "vario_mps" /\ ~Has(data, "vario") THEN "vario"
    ELSE field

_resolve_data_conflicts(data) ==
    LET data1 == IF Has(data, "ground_speed") /\ ~Has(data, "ias")
                 THEN Put(data, "ias", data["ground_speed"]) ELSE data
    IN IF Has(data1, "yaw_deg") /\ ~Has(data1, "heading")
       THEN Put(data1, "heading", (data1["yaw_deg"] + 360 * Scale) % (360 * Scale))
       ELSE data1

_merge_udp_data(m, udp_data, t) ==
    LET att == Restrict(udp_data, attitude_fields)
        data1 == Update(m._data, att)
        hist1 == IF DOMAIN att # {}
                 THEN _add_to_history(m._history, "attitude", Put(att, "timestamp", t * Scale))
                 ELSE m._history
        mot == Restrict(udp_data, motion_fields)
        stored == [k \in {MotionKey(data1, f) : f \in DOMAIN mot} |->
                      mot[CHOOSE f \in DOMAIN mot : MotionKey(data1, f) = k]]
        data2 == Update(data1, stored)
        hist2 == IF DOMAIN mot # {}
                 THEN _add_to_history(hist1, "motion", Put(mot, "timestamp", t * Scale))
                 ELSE hist1
        data3 == Update(data2, Restrict(udp_data, settings_fields))
    IN [m EXCEPT !._data = _resolve_data_conflicts(data3), !._history = hist2]

(* What update_from_nmea and update_from_condor_udp do after the merge *)
AfterMergeWithoutCleanup(m, source, t) ==
    [m EXCEPT !._sources[source] = StatusUpdate(@, t),
              !._last_update_time = t,
              !._update_counter = @ + 1]
AfterMerge(m, source, t) ==
    LET counter == m._update_counter + 1
    IN [m EXCEPT !._sources[source] = StatusUpdate(@, t),
                 !._last_update_time = t,
                 !._update_counter = counter,
                 !._history = IF counter % HISTORY_CLEANUP_INTERVAL = 0
                              THEN _cleanup_old_history(@, t) ELSE @]

update_from_nmea(m, nmea_data, t) ==
    IF DOMAIN nmea_data = {} THEN m
    ELSE AfterMerge(
           _merge_nmea_data([m EXCEPT !._source_fields.nmea = @ \cup DOMAIN nmea_data],
                            nmea_data, t),
           "nmea", t)

update_from_condor_udp(m, udp_data, t) ==
    IF DOMAIN udp_data = {} THEN m
    ELSE AfterMerge(
           _merge_udp_data([m EXCEPT !._source_fields.condor_udp = @ \cup DOMAIN udp_data],
                           udp_data, t),
           "condor_udp", t)

get_data(m) == m._data

(* SimData.get_source_status; last_update_ago is None for float('inf') *)
get_source_status(m, t) ==
    [name \in DOMAIN m._sources |->
        [connected |-> m._sources[name].connected,
         fresh |-> is_fresh(m._sources[name], t),
         last_update_ago |-> IF m._sources[name].last_update_time > 0
                             THEN t - m._sources[name].last_update_time ELSE None,
         update_count |-> m._sources[name].update_count,
         error_count |-> m._sources[name].error_count,
         fields_provided |-> m._source_fields[name]]]

(* SimData.interpolate.  The loop `for i in range(len(history) - 1)` stops
   at the first pair of neighbours that encloses the timestamp; 0 when there
   is none *)
RECURSIVE FirstEnclosing(_, _, _)
FirstEnclosing(history, timestamp, i) ==
    IF i > Len(history) - 1 THEN 0
    ELSE IF history[i].timestamp <= timestamp /\ timestamp <= history[i + 1].timestamp
         THEN i
         ELSE FirstEnclosing(history, timestamp, i + 1)

(* The interpolation factor in thousandths: 0 when t2 = t1 *)
InterpolationFactor(t1, t2, timestamp) ==
    IF t2 = t1 THEN 0 ELSE ((timestamp - t1) * Scale) \div (t2 - t1)

(* point1[key] + factor * (point2[key] - point1[key]) *)
InterpolateFromLater(v1, v2, t1, t2, timestamp) ==
    v2 + (InterpolationFactor(t1, t2, timestamp) * (v2 - v1)) \div Scale
InterpolateField(v1, v2, t1, t2, timestamp) ==
    v1 + (InterpolationFactor(t1, t2, timestamp) * (v2 - v1)) \div Scale

interpolate(m, category, timestamp) ==
    IF category \notin DOMAIN m._history THEN EmptyDict
    ELSE LET history == m._history[category]
             n == Len(history)
         IN IF n = 0 THEN EmptyDict
            ELSE IF n < 2 THEN history[n]
            ELSE IF timestamp <= history[1].timestamp THEN history[1]
            ELSE IF timestamp >= history[n].timestamp THEN history[n]
            ELSE LET i == FirstEnclosing(history, timestamp, 1)
                 IN IF i = 0 THEN history[n]
                    ELSE LET point1 == history[i]
                             point2 == history[i + 1]
                         IN [key \in (DOMAIN point1 \cap DOMAIN point2) \cup {"timestamp"} |->
                               IF key = "timestamp" THEN timestamp
                               ELSE InterpolateField(point1[key], point2[key],
                                                     point1.timestamp, point2.timestamp,
                                                     timestamp)]

(* SimData.get_last_update_time *)
get_last_update_time(m) == m._last_update_time

(* SimData.is_active *)
is_active_when_all_fresh(m, t) ==
    \A name \in DOMAIN m._sources : is_fresh(m._sources[name], t)
is_active(m, t) == \E name \in DOMAIN m._sources : is_fresh(m._sources[name], t)

(* SimData.reset *)
resetKeepingHistory(m) ==
    [m EXCEPT !._data = EmptyDict,
              !._sources = [name \in DOMAIN @ |-> StatusDisconnect(@[name])],
              !._source_fields = [name \in DOMAIN @ |-> {}],
              !._last_update_time = 0]
reset(m) ==
    [m EXCEPT !._data = EmptyDict,
              !._history = [category \in DOMAIN @ |-> <<>>],
              !._sources = [name \in DOMAIN @ |-> StatusDisconnect(@[name])],
              !._source_fields = [name \in DOMAIN @ |-> {}],
              !._last_update_time = 0]

----------------------------------------------------------------------------
(* The parser on its own: parse_sentence called with any of NmeaSentences *)

P1Cur == P1State(gps_position, soaring_data, last_gps_time, last_soaring_time)
P1Set(st) ==
    /\ gps_position' = st.gps_position
    /\ soaring_data' = st.soaring_data
    /\ last_gps_time' = st.last_gps_time
    /\ last_soaring_time' = st.last_soaring_time

(* The objects built by Bridge.__init__: their fields as the variables *)

P2Cur == P2State(attitude_data, motion_data, settings_data, last_data_time)
P2Set(st) ==
    /\ attitude_data' = st.attitude_data
    /\ motion_data' = st.motion_data
    /\ settings_data' = st.settings_data
    /\ last_data_time' = st.last_data_time
InitP2 ==
    /\ attitude_data = NoRec
    /\ motion_data = NoRec
    /\ settings_data = NoRec
    /\ last_data_time = 0

SimCur ==
    [_data |-> _data, _sources |-> _sources, _history |-> _history,
     _update_counter |-> _update_counter, _source_fields |-> _source_fields,
     _last_update_time |-> _last_update_time]
SimSet(m) ==
    /\ _data' = m._data
    /\ _sources' = m._sources
    /\ _history' = m._history
    /\ _update_counter' = m._update_counter
    /\ _source_fields' = m._source_fields
    /\ _last_update_time' = m._last_update_time
InitSim ==
    /\ _data = SimInit._data
    /\ _sources = SimInit._sources
    /\ _history = SimInit._history
    /\ _update_counter = SimInit._update_counter
    /\ _source_fields = SimInit._source_fields
    /\ _last_update_time = SimInit._last_update_time

LastOp(op, n, ok, raised, view) ==
    [op |-> op, n |-> n, ok |-> ok, raised |-> raised, view |-> view]
InitBridge ==
    /\ error_count = 0
    /\ last_op = LastOp("none", 0, FALSE, FALSE, EmptyDict)
    /\ nmea_latest = EmptyDict
    /\ kv_latest = EmptyDict

P1LastNone == [called |-> FALSE, sentence |-> <<>>, ok |-> FALSE, raised |-> FALSE]
P1Last(sentence, r) == [called |-> TRUE, sentence |-> sentence, ok |-> r.ok, raised |-> r.raised]

InitP1 ==
    /\ gps_position = NoRec
    /\ soaring_data = NoRec
    /\ last_gps_time = 0
    /\ last_soaring_time = 0
    /\ p1_last = P1LastNone

MaxNowNmea == 1001

(* The two SimData objects of the fusion comparison, not in use *)
InitFusionIdle ==
    /\ fusion_a = EmptyDict
    /\ fusion_b = EmptyDict
    /\ fusion_ab = SimInit
    /\ fusion_ba = SimInit
    /\ fusion_pc = [ab |-> 0, ba |-> 0]

(* SerialReader.__init__ / UDPReceiver.__init__ *)
InitSourceOf(kind) ==
    /\ source_kind = kind
    /\ running = FALSE
    /\ connection = "none"
    /\ threads = <<>>
    /\ lines_received = 0
    /\ data_queue = 0
    /\ delivered = 0
    /\ source_error_count = 0
    /\ reconnect_attempts = 0
    /\ reconnect_pc = "idle"
    /\ reconnect_run = [delays |-> <<>>, opens |-> 0, returned |-> "none"]
    /\ source_call = [op |-> "none", returned |-> FALSE, started |-> FALSE]
    /\ external_calls = 0

(* WebSocketServer.__init__ *)
InitHub ==
    /\ connections = {}
    /\ handlers = {}
    /\ broadcast_pc = "idle"
    /\ send_log = [outcome |-> "none", failed |-> {}]
    /\ tick_start = {}
    /\ tick_current = 0
    /\ tick_sent = {}
    /\ stale_connections = {}
    /\ errors = 0
    /\ total_connections = 0
    /\ total_broadcasts = 0
    /\ ticks = 0
    /\ tick_message = EmptyDict
    /\ tick_payloads = EmptyDict
    /\ peer_paths = EmptyDict
    /\ closed_with = EmptyDict
    /\ ws_running = TRUE
    /\ stop_pc = "none"
    /\ registered_at_stop = {}

InitHistoryIdle ==
    /\ appended_log = [category \in DOMAIN SimInit._history |-> <<>>]
    /\ resets = 0
    /\ interp_last = [called |-> FALSE, category |-> "", timestamp |-> 0, result |-> EmptyDict]

Components == {"serial", "udp", "websocket"}

(* Bridge.__init__ and _init_io_components, with the settings given *)
InitOrch(enabled) ==
    /\ settings_enabled = enabled
    /\ constructed = Components
    /\ bridge_running = FALSE
    /\ startup_time = 0
    /\ main_task = "none"
    /\ component = [c \in Components |-> "idle"]
    /\ ws_task = "none"
    /\ start_pc = "idle"
    /\ bridge_stop_pc = "idle"
    /\ stop_log = <<>>
    /\ reset_calls = 0
    /\ starts = 0
    /\ stop_calls = 0
    /\ stop_reentered = FALSE
    /\ queried = {}
    /\ last_check = [time |-> 0, warned |-> FALSE]
    /\ status_result = EmptyDict
    /\ reader_pc = "none"
    /\ settings_call = [n |-> 0, was_running |-> FALSE, result |-> "none"]
InitOrchIdle == InitOrch([c \in Components |-> TRUE])

InitRest ==
    InitFusionIdle /\ InitSourceOf("serial") /\ InitHub /\ InitHistoryIdle /\ InitOrchIdle

InitNmea ==
    /\ now = StartTime
    /\ InitP1
    /\ InitP2
    /\ InitSim
    /\ InitBridge
    /\ InitRest

ParseSentence(sentence) ==
    \E r \in {parse_sentence(P1Cur, sentence, now)} :
       /\ P1Set(r.st)
       /\ p1_last' = P1Last(sentence, r)
       /\ UNCHANGED <<now, kvVars, simVars, bridgeVars, restVars>>

TickNmea ==
    /\ now < MaxNowNmea
    /\ now' = now + 1
    /\ UNCHANGED <<nmeaVars, kvVars, simVars, bridgeVars, restVars>>

CallParse == \E sentence \in NmeaSentences : ParseSentence(sentence)

NextNmea == CallParse \/ TickNmea

SpecNmea == InitNmea /\ [][NextNmea]_vars

----------------------------------------------------------------------------
(* The bridge at work: lines and datagrams arrive in any order, the clock
   advances, and the model is reset (Bridge.stop) *)

MaxCalls == 4       \* calls made on the bridge in one run
ClockStep == 3      \* seconds between two readings of the clock

PipelineSentences ==
    {WithTail(Body_GGA_Fix, "good"), WithTail(Body_GGA_Fix, "wrong"),
     WithTail(Body_GGA_Fix, "not_hex"), WithTail(Body_LXWP0, "good"),
     WithTail(Body_RMC_Active, "good")}
PipelineDatagrams == {Dgram_Full1, Dgram_Full2, Dgram_Attitude, Dgram_Garbage}

Init ==
    /\ now = StartTime
    /\ InitP1
    /\ InitP2
    /\ InitSim
    /\ InitBridge
    /\ InitRest

(* Bridge._handle_serial_data *)
_handle_serial_data(sentence) ==
    \E r \in {parse_sentence(P1Cur, sentence, now)} :
    \E nmea_data \in {P1Combined(r.st, now)} :
       /\ last_op.n < MaxCalls
       /\ p1_last' = P1Last(sentence, r)
       /\ IF r.raised
          THEN /\ error_count' = error_count + 1
               /\ last_op' = LastOp("serial", last_op.n + 1, FALSE, TRUE, EmptyDict)
               /\ UNCHANGED <<gps_position, soaring_data, last_gps_time, last_soaring_time,
                              simVars, nmea_latest>>
          ELSE /\ P1Set(r.st)
               /\ SimSet(update_from_nmea(SimCur, nmea_data, now))
               /\ last_op' = LastOp("serial", last_op.n + 1, r.ok, FALSE, nmea_data)
               /\ nmea_latest' = Update(nmea_latest, nmea_data)
               /\ UNCHANGED error_count
       /\ UNCHANGED <<now, kvVars, kv_latest, restVars>>

(* Bridge._handle_udp_data *)
_handle_udp_data(message) ==
    \E r \in {parse_message(P2Cur, message, now)} :
    \E udp_data \in {P2Combined(r.st, now)} :
       /\ last_op.n < MaxCalls
       /\ P2Set(r.st)
       /\ SimSet(update_from_condor_udp(SimCur, udp_data, now))
       /\ last_op' = LastOp("udp", last_op.n + 1, r.ok, FALSE, udp_data)
       /\ kv_latest' = Update(kv_latest, udp_data)
       /\ UNCHANGED <<now, nmeaVars, error_count, nmea_latest, restVars>>

(* SimData.reset, as Bridge.stop calls it; the parsers keep what they hold *)
Reset ==
    /\ last_op.n < MaxCalls
    /\ SimSet(reset(SimCur))
    /\ last_op' = LastOp("reset", last_op.n + 1, FALSE, FALSE, EmptyDict)
    /\ nmea_latest' = EmptyDict
    /\ kv_latest' = EmptyDict
    /\ UNCHANGED <<now, nmeaVars, kvVars, error_count, restVars>>

Advance ==
    /\ now + ClockStep <= MaxNow
    /\ now' = now + ClockStep
    /\ UNCHANGED <<nmeaVars, kvVars, simVars, bridgeVars, restVars>>

HandleSerial == \E sentence \in PipelineSentences : _handle_serial_data(sentence)
HandleUdp == \E message \in PipelineDatagrams : _handle_udp_data(message)

Next == HandleSerial \/ HandleUdp \/ Reset \/ Advance

Spec == Init /\ [][Next]_vars

----------------------------------------------------------------------------
(* Properties of the bridge at work (Spec) *)

Ingested == last_op.op \in {"serial", "udp"} /\ DOMAIN last_op.view # {}
IngestedKv == last_op.op = "udp" /\ DOMAIN last_op.view # {}
SnapshotIs(field, value) == Has(_data, field) /\ _data[field] = value

(* C4: while NMEA has supplied no altitude_msl (no vario) since the last
   reset, after an ingest of a UDP view that carries the altitude (the vario)
   the snapshot's altitude_msl (vario) is the value of that view *)
C4_KvFallbackAltitudeVario ==
    IngestedKv =>
        /\ (Has(last_op.view, "altitude_m") /\ "altitude_msl" \notin _source_fields.nmea)
              => SnapshotIs("altitude_msl", last_op.view["altitude_m"])
        /\ (Has(last_op.view, "vario_mps") /\ "vario" \notin _source_fields.nmea)
              => SnapshotIs("vario", last_op.view["vario_mps"])

(* The step is a call of the datagram handler (the line handler) that ingests a view *)
KvIngestStep ==
    last_op'.n = last_op.n + 1 /\ last_op'.op = "udp" /\ DOMAIN last_op'.view # {}
NmeaIngestStep ==
    last_op'.n = last_op.n + 1 /\ last_op'.op = "serial" /\ DOMAIN last_op'.view # {}
SameInSnapshot(field) ==
    /\ Has(_data', field) <=> Has(_data, field)
    /\ Has(_data, field) => _data'[field] = _data[field]

(* C5: an ingest of a UDP view changes none of latitude, longitude,
   ground_speed, track_true, fix_quality, satellites, gps_valid; it changes
   none of ias, altitude_msl, vario, heading that an NMEA ingest has written
   (since the last reset); and an NMEA ingest that carries one of these four
   leaves NMEA's value in the snapshot whatever UDP wrote before *)
C5_NmeaPriority ==
    [][/\ KvIngestStep =>
            /\ \A f \in {"latitude", "longitude", "ground_speed", "track_true",
                         "fix_quality", "satellites", "gps_valid"} : SameInSnapshot(f)
            /\ \A f \in {"ias", "altitude_msl", "vario", "heading"} :
                   f \in _source_fields.nmea => SameInSnapshot(f)
       /\ NmeaIngestStep =>
            \A f \in {"ias", "altitude_msl", "vario", "heading"} :
                Has(last_op'.view, f)
                    => (Has(_data', f) /\ _data'[f] = last_op'.view[f])
      ]_vars

(* C5, its case: a UDP view carrying altitude, vario, airspeed and yaw was
   ingested after NMEA had written altitude_msl, ias, vario and heading, and the
   snapshot holds NMEA's values, which differ from the ones UDP carried *)
C5_Witness ==
    /\ IngestedKv
    /\ {"altitude_msl", "ias", "vario", "heading"} \subseteq _source_fields.nmea
    /\ {"altitude_m", "ias_kts", "vario_mps", "yaw_deg"} \subseteq DOMAIN last_op.view
    /\ SnapshotIs("altitude_msl", nmea_latest["altitude_msl"])
    /\ SnapshotIs("heading", nmea_latest["heading"])
    /\ _data["altitude_msl"] # last_op.view["altitude_m"]
    /\ _data["vario"] # last_op.view["vario_mps"]
    /\ _data["ias"] # last_op.view["ias_kts"]
    /\ SnapshotIs("yaw_deg", last_op.view["yaw_deg"])

(* C6: after every ingest the snapshot's ias is the last ias NMEA supplied, if
   it supplied one; else the last airspeed in knots UDP supplied, if it supplied
   one; else the snapshot's ground_speed, if it holds one *)
C6_IasPriority ==
    Ingested =>
        IF Has(nmea_latest, "ias") THEN SnapshotIs("ias", nmea_latest["ias"])
        ELSE IF Has(kv_latest, "ias_kts") THEN SnapshotIs("ias", kv_latest["ias_kts"])
        ELSE Has(_data, "ground_speed") => SnapshotIs("ias", _data["ground_speed"])

(* C7: while NMEA has supplied no heading since the last reset, after an
   ingest of a UDP view that carries yaw_deg the snapshot's heading is
   (yaw_deg + 360) mod 360 of that view, and lies in [0, 360) *)
C7_HeadingFallback ==
    (IngestedKv /\ Has(last_op.view, "yaw_deg") /\ "heading" \notin _source_fields.nmea)
        => /\ SnapshotIs("heading", (last_op.view["yaw_deg"] + 360 * Scale) % (360 * Scale))
           /\ 0 <= _data["heading"] /\ _data["heading"] < 360 * Scale

(* The step is a handler call whose parser did not accept the input *)
RejectingStep(op) == last_op'.n = last_op.n + 1 /\ last_op'.op = op /\ ~last_op'.ok
SourceUnchanged(source) ==
    /\ _sources'[source].update_count = _sources[source].update_count
    /\ _sources'[source].last_update_time = _sources[source].last_update_time

(* C8: a call of the line handler with a sentence parse_sentence does not
   accept, or of the datagram handler with a datagram parse_message does not
   accept, leaves the snapshot, the three histories and the source's
   update_count and last_update_time as they were *)
C8_RejectedInputLeavesModel ==
    [][/\ RejectingStep("serial") =>
            (_data' = _data /\ _history' = _history /\ SourceUnchanged("nmea"))
       /\ RejectingStep("udp") =>
            (_data' = _data /\ _history' = _history /\ SourceUnchanged("condor_udp"))
      ]_vars

(* The step is a call of the line handler *)
(* The step is a call of SimData.reset *)
ResetStep == last_op'.n = last_op.n + 1 /\ last_op'.op = "reset"
(* The step is an ingest that hands the model a non-empty view *)
NonEmptyIngestStep ==
    /\ last_op'.n = last_op.n + 1
    /\ last_op'.op \in {"serial", "udp"}
    /\ DOMAIN last_op'.view # {}
(* The model as reset leaves it: nothing in the snapshot, no source
   connected, nothing in a history, not active *)
Cleared ==
    /\ DOMAIN get_data(SimCur) = {}
    /\ \A name \in DOMAIN _sources : ~_sources[name].connected
    /\ \A category \in DOMAIN _history : _history[category] = <<>>
    /\ ~is_active(SimCur, now)

(* C16: a reset leaves the snapshot empty, both sources not connected, the
   three histories empty and the model not active, and the model stays so
   over every step that is not an ingest of a non-empty view *)
C16_ResetClears ==
    [][/\ ResetStep => Cleared'
       /\ (Cleared /\ ~NonEmptyIngestStep) => Cleared'
      ]_vars

(* C16, its case: the model has ingested, was reset, and has since been
   handed an empty view at a later time; it is still cleared *)
C16_Witness ==
    /\ _update_counter > 0
    /\ Cleared
    /\ last_op.op = "serial"
    /\ now > StartTime

(* The source's last update is younger than the freshness threshold *)
UpdatedWithinThreshold(name) ==
    now - _sources[name].last_update_time < DATA_FRESHNESS_THRESHOLD
(* is_active and get_source_status say what the sources' update times say *)
ActiveIffSomeSourceFresh ==
    /\ is_active(SimCur, now) <=> \E name \in DOMAIN _sources : UpdatedWithinThreshold(name)
    /\ \A name \in DOMAIN _sources :
          get_source_status(SimCur, now)[name].fresh <=> UpdatedWithinThreshold(name)
    /\ (\A name \in DOMAIN _sources : _sources[name].update_count = 0)
          => ~is_active(SimCur, now)

(* C21: is_active is true exactly when some source was updated within its
   freshness threshold, get_source_status reports fresh for exactly those
   sources, a model that never ingested is not active, and the model is
   active right after an ingest of a non-empty view *)
C21_ActiveIffFresh ==
    [][/\ ActiveIffSomeSourceFresh
       /\ ActiveIffSomeSourceFresh'
       /\ NonEmptyIngestStep => is_active(SimCur, now)'
      ]_vars

(* C21, its case: NMEA has ingested and is fresh, the datagram source has
   ingested earlier and is no longer fresh, and the model is active *)
C21_Witness ==
    /\ get_source_status(SimCur, now).nmea.fresh
    /\ ~get_source_status(SimCur, now).condor_udp.fresh
    /\ _sources.condor_udp.update_count > 0
    /\ _sources.condor_udp.connected
    /\ is_active(SimCur, now)

(* C17: after a reset every counter of the model is zero, as in a new
   model: each source's update_count and error_count, and the ingest counter
   that schedules the pruning of the histories *)
C17_ResetZeroesCounters ==
    [][ResetStep =>
          /\ _update_counter' = SimInit._update_counter
          /\ \A name \in DOMAIN _sources :
                /\ _sources'[name].update_count = SimInit._sources[name].update_count
                /\ _sources'[name].error_count = SimInit._sources[name].error_count
      ]_vars

(* C18: no step makes a source's last_update_time smaller *)
C18_LastUpdateNeverDecreases ==
    [][\A name \in DOMAIN _sources :
          _sources'[name].last_update_time >= _sources[name].last_update_time
      ]_vars

SerialStep == last_op'.n = last_op.n + 1 /\ last_op'.op = "serial"

(* C12: a call of the line handler whose sentence parse_sentence rejects adds
   one to an error counter, and one whose sentence it accepts adds none.
   NMEAParser has no counter of its own; the counters a line can reach are
   Bridge.error_count and the error_count of the "nmea" source *)
C12_RejectIsCounted ==
    [][SerialStep =>
          IF last_op'.ok
          THEN /\ error_count' = error_count
               /\ _sources'.nmea.error_count = _sources.nmea.error_count
          ELSE \/ error_count' = error_count + 1
               \/ _sources'.nmea.error_count = _sources.nmea.error_count + 1
      ]_vars

----------------------------------------------------------------------------
(* Two SimData objects, each freshly constructed or freshly reset, ingest the
   same NMEA view and the same UDP view, one in each order *)

FusionSentences ==
    {WithTail(Body_GGA_Fix, "good"), WithTail(Body_GGA_NoFix, "good"),
     WithTail(Body_RMC_Active, "good"), WithTail(Body_LXWP0, "good")}
FusionDatagrams == {Dgram_Full1, Dgram_Full2, Dgram_Attitude, Dgram_Motion}

(* What get_combined_data returns after the parser, fresh, was given one
   input or two *)
NmeaViewAfter(s1, s2) ==
    P1Combined(parse_sentence(parse_sentence(P1Init, s1, StartTime).st, s2, StartTime).st,
               StartTime)
KvViewAfter(m1, m2) ==
    P2Combined(parse_message(parse_message(P2Init, m1, StartTime).st, m2, StartTime).st,
               StartTime)
NmeaViews ==
    {v \in {NmeaViewAfter(s1, s2) : s1, s2 \in FusionSentences} : DOMAIN v # {}}
KvViews ==
    {v \in {KvViewAfter(m1, m2) : m1, m2 \in FusionDatagrams} : DOMAIN v # {}}

(* A SimData after construction, and after use and reset *)
FreshModels ==
    {SimInit}
    \cup {reset(update_from_nmea(SimInit, a, StartTime)) : a \in NmeaViews}

InitFusion ==
    /\ now = StartTime
    /\ InitP1
    /\ InitP2
    /\ InitSim
    /\ InitBridge
    /\ fusion_a \in NmeaViews
    /\ fusion_b \in KvViews
    /\ fusion_ab \in FreshModels
    /\ fusion_ba = fusion_ab
    /\ fusion_pc = [ab |-> 0, ba |-> 0]
    /\ InitSourceOf("serial")
    /\ InitHub
    /\ InitHistoryIdle
    /\ InitOrchIdle

FusionUnchanged ==
    UNCHANGED <<nmeaVars, kvVars, simVars, bridgeVars, fusion_a, fusion_b, sourceVars,
                hubVars, historyVars, orchVars>>

(* update_from_nmea(a) then update_from_condor_udp(b) on the first object *)
IngestNmeaFirst ==
    /\ fusion_pc.ab = 0
    /\ fusion_ab' = update_from_nmea(fusion_ab, fusion_a, now)
    /\ fusion_pc' = [fusion_pc EXCEPT !.ab = 1]
    /\ UNCHANGED <<now, fusion_ba>>
    /\ FusionUnchanged
IngestKvSecond ==
    /\ fusion_pc.ab = 1
    /\ fusion_ab' = update_from_condor_udp(fusion_ab, fusion_b, now)
    /\ fusion_pc' = [fusion_pc EXCEPT !.ab = 2]
    /\ UNCHANGED <<now, fusion_ba>>
    /\ FusionUnchanged

(* update_from_condor_udp(b) then update_from_nmea(a) on the second object *)
IngestKvFirst ==
    /\ fusion_pc.ba = 0
    /\ fusion_ba' = update_from_condor_udp(fusion_ba, fusion_b, now)
    /\ fusion_pc' = [fusion_pc EXCEPT !.ba = 1]
    /\ UNCHANGED <<now, fusion_ab>>
    /\ FusionUnchanged
IngestNmeaSecond ==
    /\ fusion_pc.ba = 1
    /\ fusion_ba' = update_from_nmea(fusion_ba, fusion_a, now)
    /\ fusion_pc' = [fusion_pc EXCEPT !.ba = 2]
    /\ UNCHANGED <<now, fusion_ab>>
    /\ FusionUnchanged

AdvanceFusion ==
    /\ now < MaxNowNmea
    /\ now' = now + 1
    /\ UNCHANGED <<fusion_ab, fusion_ba, fusion_pc>>
    /\ FusionUnchanged

NextFusion ==
    IngestNmeaFirst \/ IngestKvSecond \/ IngestKvFirst \/ IngestNmeaSecond \/ AdvanceFusion

SpecFusion == InitFusion /\ [][NextFusion]_vars

(* C3: once both objects have made their two ingests, their snapshots have
   the same keys and the same values, the timestamp key apart *)
C3_FusionOrderIndependent ==
    (fusion_pc.ab = 2 /\ fusion_pc.ba = 2)
        => Without(fusion_ab._data, "timestamp") = Without(fusion_ba._data, "timestamp")

----------------------------------------------------------------------------
(* SerialReader (io/serial_reader.py) and UDPReceiver (io/udp_receiver.py):
   the reading thread, the queue it fills, and the calls made from outside *)

QUEUE_MAXSIZE == 100      \* queue.Queue(maxsize=100)
max_retries == 5          \* the default of __init__
MaxLines == 101           \* lines (datagrams) that arrive in one run
MaxExternalCalls == 2     \* calls made on the source from outside in one run
retry_delay == 2          \* the default of __init__, in seconds
MAX_RECONNECT_DELAY == 64 \* constants.py; auto_reconnect does not read it

InitSource ==
    /\ now = StartTime
    /\ InitP1
    /\ InitP2
    /\ InitSim
    /\ InitBridge
    /\ InitHistoryIdle
    /\ InitOrchIdle
    /\ InitFusionIdle
    /\ InitHub
    /\ \E kind \in {"serial", "udp"} : InitSourceOf(kind)

SourceUnchangedElse ==
    UNCHANGED <<now, nmeaVars, kvVars, simVars, bridgeVars, fusionVars, hubVars, historyVars,
                orchVars>>

ThreadAlive(i) == threads[i] \in {"loop", "put", "callback"}

(* The test of the while loop: `self.running and self.serial_conn.is_open`
   in SerialReader, `self.running` in UDPReceiver *)
LoopCondition ==
    IF source_kind = "serial" THEN running /\ connection = "open" ELSE running

(* open(): the port opens (the socket binds), or SerialException (OSError) is
   caught and counted *)
OpenOutcomes == {"opened", "failed"}

(* What a call of the source returned; started: a thread was started *)
SourceCall(op, returned, started) == [op |-> op, returned |-> returned, started |-> started]

(* The body of start_reading / start_receiving on a source whose connection
   is conn and whose running flag is run: open() is called for a serial
   port that is not open, and for a socket attribute that is None *)
StartFrom(conn, run, op) ==
    \E outcome \in OpenOutcomes :
       LET must_open == IF source_kind = "serial" THEN conn # "open" ELSE conn = "none"
       IN IF must_open /\ outcome = "failed"
          THEN /\ source_error_count' = source_error_count + 1
               /\ connection' = conn
               /\ running' = run
               /\ source_call' = SourceCall(op, FALSE, FALSE)
               /\ UNCHANGED threads
          ELSE /\ connection' = IF must_open THEN "open" ELSE conn
               /\ running' = TRUE
               /\ threads' = Append(threads, "loop")
               /\ source_call' = SourceCall(op, TRUE, TRUE)
               /\ UNCHANGED source_error_count

(* start_reading / start_receiving *)
start_reading ==
    /\ external_calls < MaxExternalCalls
    /\ external_calls' = external_calls + 1
    /\ StartFrom(connection, running, "start_reading")
    /\ UNCHANGED <<source_kind, lines_received, data_queue, delivered,
                   reconnect_attempts, reconnect_pc, reconnect_run>>
    /\ SourceUnchangedElse

(* The connection after close(): an open port (a socket) is closed; the
   attribute keeps the closed object *)
ClosedConnection == IF connection = "open" THEN "closed" ELSE connection

(* close(): the join returns when the thread has ended or after 2 s, and the
   port (socket) is closed either way *)
close ==
    /\ external_calls < MaxExternalCalls
    /\ external_calls' = external_calls + 1
    /\ running' = FALSE
    /\ connection' = ClosedConnection
    /\ source_call' = SourceCall("close", TRUE, FALSE)
    /\ UNCHANGED <<source_kind, threads, lines_received, data_queue, delivered,
                   source_error_count, reconnect_attempts, reconnect_pc, reconnect_run>>
    /\ SourceUnchangedElse

(* set_port and set_baudrate: a running source is closed and started again,
   one that is not running only takes the new value *)
Reconfigure(op) ==
    /\ external_calls < MaxExternalCalls
    /\ external_calls' = external_calls + 1
    /\ IF running
       THEN StartFrom(ClosedConnection, FALSE, op)
       ELSE /\ source_call' = SourceCall(op, TRUE, FALSE)
            /\ UNCHANGED <<running, connection, threads, source_error_count>>
    /\ UNCHANGED <<source_kind, lines_received, data_queue, delivered,
                   reconnect_attempts, reconnect_pc, reconnect_run>>
    /\ SourceUnchangedElse

set_port == source_kind \in {"serial", "udp"} /\ Reconfigure("set_port")
set_baudrate == source_kind = "serial" /\ Reconfigure("set_baudrate")

(* get_status: "connected" of SerialReader, "bound" of UDPReceiver, and
   "running", which looks at the thread started last *)
SourceStatus ==
    [connected |-> IF source_kind = "serial" THEN connection = "open"
                   ELSE connection # "none",
     running |-> running /\ Len(threads) > 0 /\ ThreadAlive(Len(threads))]

(* read_async / receive_async: takes one item off the queue if there is one *)
read_async ==
    /\ external_calls < MaxExternalCalls
    /\ external_calls' = external_calls + 1
    /\ data_queue > 0
    /\ data_queue' = data_queue - 1
    /\ source_call' = SourceCall("read_async", TRUE, FALSE)
    /\ UNCHANGED <<source_kind, running, connection, threads, lines_received, delivered,
                   source_error_count, reconnect_attempts, reconnect_pc, reconnect_run>>
    /\ SourceUnchangedElse

(* delay = self.retry_delay * (2 ** self.reconnect_attempts) *)
ReconnectDelayLinear(attempts) == retry_delay * (attempts + 1)
ReconnectDelay(attempts) == retry_delay * (2 ^ attempts)

(* auto_reconnect, from its call to its first await, or to its return *)
auto_reconnect ==
    /\ external_calls < MaxExternalCalls
    /\ external_calls' = external_calls + 1
    /\ reconnect_pc = "idle"
    /\ reconnect_attempts' = 0
    /\ source_call' = SourceCall("auto_reconnect", FALSE, FALSE)
    /\ IF 0 < max_retries /\ running
       THEN /\ reconnect_pc' = "sleep"
            /\ reconnect_run' = [delays |-> <<ReconnectDelay(0)>>, opens |-> 0,
                                 returned |-> "none"]
       ELSE /\ reconnect_pc' = "idle"
            /\ reconnect_run' = [delays |-> <<>>, opens |-> 0, returned |-> "false"]
    /\ UNCHANGED <<source_kind, running, connection, threads, lines_received, data_queue,
                   delivered, source_error_count>>
    /\ SourceUnchangedElse

(* auto_reconnect, from the end of a sleep to the next await or to its return *)
ReconnectAttempt ==
    /\ reconnect_pc = "sleep"
    /\ \E outcome \in OpenOutcomes :
         IF outcome = "opened"
         THEN /\ connection' = "open"
              /\ reconnect_attempts' = 0
              /\ reconnect_pc' = "idle"
              /\ reconnect_run' = [reconnect_run EXCEPT !.opens = @ + 1,
                                                        !.returned = "true"]
              /\ UNCHANGED source_error_count
         ELSE /\ source_error_count' = source_error_count + 1
              /\ reconnect_attempts' = reconnect_attempts + 1
              /\ IF reconnect_attempts + 1 < max_retries /\ running
                 THEN /\ reconnect_pc' = "sleep"
                      /\ reconnect_run' =
                            [reconnect_run EXCEPT
                               !.opens = @ + 1,
                               !.delays = Append(@, ReconnectDelay(reconnect_attempts + 1))]
                 ELSE /\ reconnect_pc' = "idle"
                      /\ reconnect_run' = [reconnect_run EXCEPT !.opens = @ + 1,
                                                                !.returned = "false"]
              /\ UNCHANGED connection
    /\ UNCHANGED <<source_kind, running, threads, lines_received, data_queue, delivered,
                   external_calls, source_call>>
    /\ SourceUnchangedElse

ThreadUnchanged ==
    /\ UNCHANGED <<source_kind, running, connection, reconnect_attempts, reconnect_pc,
                   reconnect_run, source_call, external_calls>>
    /\ SourceUnchangedElse

(* _read_loop: the loop test fails and the thread ends *)
LoopExit(i) ==
    /\ threads[i] = "loop"
    /\ ~LoopCondition
    /\ threads' = [threads EXCEPT ![i] = "exited"]
    /\ UNCHANGED <<lines_received, data_queue, delivered, source_error_count>>
    /\ ThreadUnchanged

(* _read_loop: readline (recvfrom) returns a line (a datagram).  A read that
   times out returns to the loop test and changes nothing. *)
ReadLine(i) ==
    /\ threads[i] = "loop"
    /\ LoopCondition
    /\ connection = "open"
    /\ lines_received < MaxLines
    /\ lines_received' = lines_received + 1
    /\ threads' = [threads EXCEPT ![i] = "put"]
    /\ UNCHANGED <<data_queue, delivered, source_error_count>>
    /\ ThreadUnchanged

(* _read_loop: readline raises SerialException (recvfrom raises OSError, as
   it does on a closed socket): counted, and the loop is left by break *)
ReadError(i) ==
    /\ threads[i] = "loop"
    /\ LoopCondition
    /\ connection \in {"open", "closed"}
    /\ source_error_count' = source_error_count + 1
    /\ threads' = [threads EXCEPT ![i] = "broken"]
    /\ UNCHANGED <<lines_received, data_queue, delivered>>
    /\ ThreadUnchanged

(* _read_loop: self.data_queue.put(decoded_line), which blocks while the
   queue is full *)
QueuePut(i) ==
    /\ threads[i] = "put"
    /\ data_queue < QUEUE_MAXSIZE
    /\ data_queue' = data_queue + 1
    /\ threads' = [threads EXCEPT ![i] = "callback"]
    /\ UNCHANGED <<lines_received, delivered, source_error_count>>
    /\ ThreadUnchanged

(* _read_loop: self.data_callback(decoded_line); the bridge's handlers catch
   what they raise *)
Callback(i) ==
    /\ threads[i] = "callback"
    /\ delivered' = delivered + 1
    /\ threads' = [threads EXCEPT ![i] = "loop"]
    /\ UNCHANGED <<lines_received, data_queue, source_error_count>>
    /\ ThreadUnchanged

(* What a thread does without waiting for the outside *)
ThreadProgress(i) ==
    i \in DOMAIN threads /\ (LoopExit(i) \/ QueuePut(i) \/ Callback(i))

ThreadExits == \E i \in DOMAIN threads : LoopExit(i)
ThreadReads == \E i \in DOMAIN threads : ReadLine(i)
ThreadFails == \E i \in DOMAIN threads : ReadError(i)
ThreadPuts == \E i \in DOMAIN threads : QueuePut(i)
ThreadCalls == \E i \in DOMAIN threads : Callback(i)

NextSource ==
    \/ start_reading \/ close \/ set_port \/ set_baudrate
    \/ read_async \/ auto_reconnect \/ ReconnectAttempt
    \/ ThreadExits \/ ThreadReads \/ ThreadFails \/ ThreadPuts \/ ThreadCalls

SpecSource == InitSource /\ [][NextSource]_vars

(* The threads are scheduled, and the event loop resumes a coroutine whose
   sleep has ended; nothing makes the outside call the source *)
SpecSourceFair ==
    /\ SpecSource
    /\ \A i \in 1..MaxExternalCalls : WF_vars(ThreadProgress(i))
    /\ WF_vars(ReconnectAttempt)

(* C1: while the source is running and connected, a line that was read is
   eventually passed to the callback, whoever drains the queue or not *)
C1_EveryLineDelivered ==
    (lines_received > delivered)
        ~> (lines_received = delivered \/ ~running \/ connection # "open")

(* C24: once close has set running to false, every reading thread that is
   still alive ends, unless the source is started again *)
C24_CloseEndsTheThread ==
    (~running /\ \E i \in DOMAIN threads : ThreadAlive(i))
        ~> (running \/ \A i \in DOMAIN threads : ~ThreadAlive(i))

(* The step is a call made on the source from outside *)
SourceCallStep == external_calls' = external_calls + 1

(* C36: on a DatagramSource, when start_receiving (called directly or by
   set_port) has returned true, the thread it started is alive and the
   socket is open and bound; after close() the status reports bound = false *)
C36_StartedMeansReceiving ==
    [][(source_kind = "udp" /\ SourceCallStep) =>
          /\ source_call'.started
                => (connection' = "open" /\ threads'[Len(threads')] = "loop")
          /\ source_call'.op = "close" => ~SourceStatus'.connected
      ]_vars

(* C37: at most one reading thread of the source is alive *)
C37_OneReaderThread ==
    Cardinality({i \in DOMAIN threads : ThreadAlive(i)}) <= 1

(* The step is one of auto_reconnect *)
ReconnectStep == reconnect_run' # reconnect_run
(* The run of auto_reconnect has made every attempt it is allowed *)
Exhausted(run) == run.returned = "false" /\ run.opens = max_retries

(* C31: a run of auto_reconnect calls open() at most max_retries times, each
   call after a wait of retry_delay * 2^k seconds for the k-th call from 0,
   which is 2, 4, 8, 16, 32 and never above 64; it returns true with the
   attempt counter at 0 and the connection open, or, with every attempt
   made, false with the counter at max_retries; no step of it changes
   running *)
C31_ReconnectBackoff ==
    [][/\ reconnect_run'.opens <= max_retries
       /\ Len(reconnect_run'.delays) \in {reconnect_run'.opens, reconnect_run'.opens + 1}
       /\ reconnect_run'.returned # "none" => Len(reconnect_run'.delays) = reconnect_run'.opens
       /\ \A k \in 1..Len(reconnect_run'.delays) :
             /\ reconnect_run'.delays[k] = <<2, 4, 8, 16, 32>>[k]
             /\ reconnect_run'.delays[k] = retry_delay * 2 ^ (k - 1)
             /\ reconnect_run'.delays[k] <= MAX_RECONNECT_DELAY
       /\ ReconnectStep =>
             /\ running' = running
             /\ reconnect_run'.returned = "true"
                   => (reconnect_attempts' = 0 /\ connection' = "open")
             /\ Exhausted(reconnect_run')
                   => reconnect_attempts' = max_retries
      ]_vars

(* C31, its case: a run on a running source has waited 2, 4, 8, 16 and 32 s,
   has called open() five times in vain and has returned false *)
C31_Witness ==
    /\ Exhausted(reconnect_run)
    /\ reconnect_run.delays = <<2, 4, 8, 16, 32>>
    /\ reconnect_attempts = max_retries
    /\ running

(* C9: after a read has raised an I/O error while the source is running, the
   source is eventually reconnecting or reading again *)
C9_ReconnectsOnItsOwn ==
    (running /\ \E i \in DOMAIN threads : threads[i] = "broken")
        ~> (\/ reconnect_pc = "sleep"
            \/ \E i \in DOMAIN threads : ThreadAlive(i)
            \/ ~running)

----------------------------------------------------------------------------
(* WebSocketServer (io/websocket_server.py): the subscriber set, the peers'
   handler coroutines and the broadcast tick, all on one event loop: a
   coroutine runs until its next await *)

MaxConnects == 2      \* connections accepted in one run
MaxTicks == 2         \* ticks begun in one run

(* A websocket object is known by the number of its connection *)
PeerIds == 1..MaxConnects

(* The SimData the data provider reads: empty, or holding a position *)
HubModels ==
    {SimInit,
     update_from_nmea(SimInit, NmeaViewAfter(WithTail(Body_GGA_Fix, "good"),
                                             WithTail(Body_GGA_Fix, "good")), StartTime)}

InitHubSpec ==
    /\ now = StartTime
    /\ InitP1
    /\ InitP2
    /\ \E m \in HubModels :
          /\ _data = m._data
          /\ _sources = m._sources
          /\ _history = m._history
          /\ _update_counter = m._update_counter
          /\ _source_fields = m._source_fields
          /\ _last_update_time = m._last_update_time
    /\ InitBridge
    /\ InitHistoryIdle
    /\ InitOrchIdle
    /\ InitFusionIdle
    /\ InitSourceOf("serial")
    /\ InitHub

HubUnchangedElse ==
    UNCHANGED <<now, nmeaVars, kvVars, simVars, bridgeVars, fusionVars, sourceVars,
                historyVars, orchVars>>

(* dict.get(key, default) *)
Get(d, k, default) == IF Has(d, k) THEN d[k] ELSE default

(* metres to feet: x * 3.28084, to three decimals *)
FeetOf(x) == (x \div 1000) * 3281 + ((x % 1000) * 3281) \div 1000

(* WebSocketServer._format_for_shirley_compatible *)
_format_for_shirley_compatible(sim_data) ==
    LET position0 ==
            [latitudeDeg |-> Get(sim_data, "latitude", 0),
             longitudeDeg |-> Get(sim_data, "longitude", 0),
             mslAltitudeFt |-> IF Get(sim_data, "altitude_msl", None) # None
                               THEN FeetOf(sim_data["altitude_msl"]) ELSE 0]
        position ==
            IF Get(sim_data, "height_agl", None) # None
            THEN Put(position0, "aglAltitudeFt", FeetOf(sim_data["height_agl"]))
            ELSE position0
        attitude0 ==
            [rollAngleDegRight |-> Get(sim_data, "bank_deg", 0),
             pitchAngleDegUp |-> Get(sim_data, "pitch_deg", 0),
             trueHeadingDeg |-> Get(sim_data, "heading", Get(sim_data, "yaw_deg", 0))]
        attitude ==
            IF Get(sim_data, "turn_rate", None) # None
            THEN Put(attitude0, "turnRateDegPerSec", sim_data["turn_rate"])
            ELSE attitude0
    IN [position |-> position, attitude |-> attitude]

(* The argument of `await ws.send(message)`: the message built before the loop *)
SentMessageRebuilt(message, m) == _format_for_shirley_compatible(get_data(m))
SentMessage(message, m) == message

(* self.path, and the request paths of the peers *)
ServerPath == <<"/", "a", "p", "i", "/", "v", "1">>
HubPaths == {ServerPath}
ServerPaths == {ServerPath, <<"/", "x">> \o ServerPath, ServerPath \o <<"/", "x">>}

(* str.endswith *)
EndsWith(text, suffix) ==
    Len(text) >= Len(suffix) /\ SubSeq(text, Len(text) - Len(suffix) + 1, Len(text)) = suffix

(* handler's test of the request path: path.endswith(self.path) *)
PathMatchesAsPrefix(path) == StartsWith(path, ServerPath)
PathMatches(path) == EndsWith(path, ServerPath)

(* The next peer to connect, and whether the listening socket is open *)
NextPeer == Cardinality(DOMAIN peer_paths) + 1
ServerAccepts == stop_pc # "done"

(* handler, from its call to the await of the peer's first message *)
HandlerAccept(ws, path) ==
    /\ ServerAccepts
    /\ ws = NextPeer
    /\ PathMatches(path)
    /\ peer_paths' = Put(peer_paths, ws, path)
    /\ connections' = connections \cup {ws}
    /\ handlers' = handlers \cup {ws}
    /\ total_connections' = total_connections + 1
    /\ UNCHANGED <<broadcast_pc, tick_start, tick_current, tick_sent, stale_connections,
                   errors, total_broadcasts, ticks, tick_message, tick_payloads, send_log,
                   closed_with, ws_running, stop_pc, registered_at_stop>>
    /\ HubUnchangedElse

(* handler, when the request path does not end with self.path: the peer is
   closed with 1008 and the handler returns *)
HandlerReject(ws, path) ==
    /\ ServerAccepts
    /\ ws = NextPeer
    /\ ~PathMatches(path)
    /\ peer_paths' = Put(peer_paths, ws, path)
    /\ closed_with' = Put(closed_with, ws, 1008)
    /\ UNCHANGED <<connections, handlers, broadcast_pc, tick_start, tick_current, tick_sent,
                   stale_connections, errors, total_connections, total_broadcasts, ticks,
                   tick_message, tick_payloads, send_log, ws_running, stop_pc, registered_at_stop>>
    /\ HubUnchangedElse

(* handler, when the peer's connection has closed: the finally clause *)
HandlerFinally(ws) ==
    /\ ws \in handlers
    /\ handlers' = handlers \ {ws}
    /\ connections' = connections \ {ws}
    /\ UNCHANGED <<broadcast_pc, tick_start, tick_current, tick_sent, stale_connections,
                   errors, total_connections, total_broadcasts, ticks, tick_message,
                   tick_payloads, send_log, serverVars>>
    /\ HubUnchangedElse

(* WebSocketServer.stop, to its first await: running is cleared and the
   broadcast task is cancelled.  The task is waiting in a send or in the
   sleep between two ticks, and CancelledError is no Exception (Python >= 3.8),
   so neither except clause of _broadcast_data keeps the task going. *)
TaskIgnoringCancel(pc) == pc
TaskAfterCancel(pc) == "cancelled"

WsStopBegin ==
    /\ stop_pc = "none"
    /\ ws_running' = FALSE
    /\ broadcast_pc' = TaskAfterCancel(broadcast_pc)
    /\ registered_at_stop' = connections
    /\ stop_pc' = "await_task"
    /\ UNCHANGED <<connections, handlers, tick_start, tick_current, tick_sent,
                   stale_connections, errors, total_connections, total_broadcasts, ticks,
                   tick_message, tick_payloads, send_log, peer_paths, closed_with>>
    /\ HubUnchangedElse

(* stop, from the end of the gather on the broadcast task: a close(1001) for
   every member of self.connections, awaited together; with no member the
   server is closed at once *)
WsStopSendCloses ==
    /\ stop_pc = "await_task"
    /\ closed_with' = Update(closed_with, [ws \in connections |-> 1001])
    /\ stop_pc' = IF connections = {} THEN "done" ELSE "await_closes"
    /\ UNCHANGED <<connections, handlers, broadcast_pc, tick_start, tick_current, tick_sent,
                   stale_connections, errors, total_connections, total_broadcasts, ticks,
                   tick_message, tick_payloads, send_log, peer_paths, ws_running, registered_at_stop>>
    /\ HubUnchangedElse

(* stop, from the end of the gather on the closes: self.connections.clear(),
   self.server.close() and wait_closed() *)
WsStopFinish ==
    /\ stop_pc = "await_closes"
    /\ connections' = {}
    /\ stop_pc' = "done"
    /\ UNCHANGED <<handlers, broadcast_pc, tick_start, tick_current, tick_sent,
                   stale_connections, errors, total_connections, total_broadcasts, ticks,
                   tick_message, tick_payloads, send_log, peer_paths, closed_with, ws_running,
                   registered_at_stop>>
    /\ HubUnchangedElse

(* What `await ws.send(message)` can end with *)
SendOutcomes(ws) ==
    IF ws \in handlers THEN {"sent", "error", "closed"} ELSE {"closed"}

(* Where the broadcast loop is after `except Exception` of _broadcast_data
   has caught and counted an exception: _broadcast_data returns, the loop
   sleeps and goes on *)
LoopEndedByException == "ended"
LoopAfterException == "idle"

(* The end of the for loop of _broadcast_data: stale connections removed,
   statistics updated *)
TickComplete(stale) ==
    /\ connections' = connections \ stale
    /\ total_broadcasts' = total_broadcasts + 1
    /\ stale_connections' = stale
    /\ broadcast_pc' = "idle"
    /\ tick_current' = 0
    /\ UNCHANGED <<tick_sent, errors>>

(* _broadcast_data, from its call to the first await ws.send.  With no
   subscriber or an empty snapshot it returns at once and changes nothing. *)
BroadcastBegin ==
    /\ broadcast_pc = "idle"
    /\ ws_running
    /\ ticks < MaxTicks
    /\ connections # {}
    /\ DOMAIN get_data(SimCur) # {}
    /\ ticks' = ticks + 1
    /\ tick_start' = connections
    /\ stale_connections' = {}
    /\ \E message \in {_format_for_shirley_compatible(get_data(SimCur))} :
       \E ws \in connections :
          /\ tick_message' = message
          /\ tick_current' = ws
          /\ tick_sent' = {ws}
          /\ tick_payloads' = Put(EmptyDict, ws, SentMessage(message, SimCur))
    /\ broadcast_pc' = "send"
    /\ send_log' = [send_log EXCEPT !.outcome = "none"]
    /\ UNCHANGED <<connections, handlers, errors, total_connections, total_broadcasts,
                   serverVars>>
    /\ HubUnchangedElse

(* _broadcast_data, from the end of a send to the next await ws.send or to
   its return.  The for loop iterates self.connections itself: when the set
   has another size than at the start of the loop, the iterator raises
   RuntimeError, which the outer except counts; when it was changed and has
   the same size again, the iterator may have lost its place. *)
BroadcastResume ==
    /\ broadcast_pc = "send"
    /\ \E outcome \in SendOutcomes(tick_current) :
       \E stale \in {IF outcome = "sent" THEN stale_connections
                     ELSE stale_connections \cup {tick_current}} :
       \E counted \in {IF outcome = "error" THEN errors + 1 ELSE errors} :
       \E broken \in {Cardinality(connections) # Cardinality(tick_start)} :
          /\ send_log' = [outcome |-> outcome,
                          failed |-> IF outcome # "sent" \/ broken
                                     THEN send_log.failed \cup {ticks}
                                     ELSE send_log.failed]
          /\ IF broken
             THEN /\ errors' = counted + 1
                  /\ stale_connections' = stale
                  /\ broadcast_pc' = LoopAfterException
                  /\ tick_current' = 0
                  /\ UNCHANGED <<connections, tick_sent, total_broadcasts, tick_payloads>>
             ELSE \/ /\ \E ws \in connections \ tick_sent :
                           /\ tick_current' = ws
                           /\ tick_sent' = tick_sent \cup {ws}
                           /\ tick_payloads' =
                                 Put(tick_payloads, ws, SentMessage(tick_message, SimCur))
                     /\ stale_connections' = stale
                     /\ errors' = counted
                     /\ UNCHANGED <<connections, broadcast_pc, total_broadcasts>>
                  \/ /\ connections \subseteq tick_sent \/ connections # tick_start
                     /\ errors' = counted
                     /\ TickComplete(stale)
                     /\ UNCHANGED tick_payloads
    /\ UNCHANGED <<handlers, tick_start, total_connections, ticks, tick_message, serverVars>>
    /\ HubUnchangedElse

(* _broadcast_data when self.data_provider() or the formatting and encoding
   of its result raises: the outer except counts it, no send is made *)
BroadcastRaises ==
    /\ broadcast_pc = "idle"
    /\ ws_running
    /\ ticks < MaxTicks
    /\ connections # {}
    /\ ticks' = ticks + 1
    /\ errors' = errors + 1
    /\ broadcast_pc' = LoopAfterException
    /\ send_log' = [outcome |-> "raised", failed |-> send_log.failed \cup {ticks + 1}]
    /\ UNCHANGED <<connections, handlers, tick_start, tick_sent, tick_current,
                   stale_connections, total_connections, total_broadcasts, tick_message,
                   tick_payloads, serverVars>>
    /\ HubUnchangedElse

(* An ingest on the reading thread while the event loop is between two
   steps: update_from_nmea / update_from_condor_udp hold SimData._lock from
   start to end, and so does get_data *)
MaxHubIngests == 2
HubNmeaViews ==
    {NmeaViewAfter(WithTail(Body_GGA_NoFix, "good"), WithTail(Body_LXWP0, "good"))}
HubKvViews == {KvViewAfter(Dgram_Full1, Dgram_Full1)}
HubIngest ==
    /\ _update_counter < MaxHubIngests
    /\ \/ \E a \in HubNmeaViews : SimSet(update_from_nmea(SimCur, a, now))
       \/ \E b \in HubKvViews : SimSet(update_from_condor_udp(SimCur, b, now))
    /\ UNCHANGED <<now, nmeaVars, kvVars, bridgeVars, fusionVars, sourceVars, hubVars,
                   historyVars, orchVars>>

Accept == \E ws \in PeerIds : \E path \in HubPaths : HandlerAccept(ws, path)
PeerCloses == \E ws \in PeerIds : HandlerFinally(ws)

NextHub ==
    \/ Accept \/ PeerCloses \/ BroadcastBegin \/ BroadcastResume \/ BroadcastRaises
    \/ HubIngest

SpecHub == InitHubSpec /\ [][NextHub]_vars

(* The step is one of the broadcast task: a send has ended, or the snapshot
   provider or the encoder has raised *)
SendEnds == broadcast_pc = "send" /\ (broadcast_pc' # "send" \/ tick_sent' # tick_sent)
ProviderRaises ==
    broadcast_pc = "idle" /\ send_log' # send_log /\ send_log'.outcome = "raised"
(* The for loop over the subscriber set finds the set changed in size *)
IterationBreaks == Cardinality(connections) # Cardinality(tick_start)
(* The exceptions the step has met, given the outcomes of a send that raise *)
ExceptionsCounted(raising) ==
    (IF send_log'.outcome \in raising THEN 1 ELSE 0)
    + (IF SendEnds /\ IterationBreaks THEN 1 ELSE 0)

(* C35, as amended: while B runs, a step of the broadcast task in which the
   provider or the encoder raises, a send raises another exception than
   ConnectionClosed, or the subscriber set has changed during the iteration,
   adds each of these to errors and leaves the loop going; a send that ends
   with ConnectionClosed is not counted *)
C35_FailedTickIsCountedAndLoopGoesOn ==
    [][(SendEnds \/ ProviderRaises) =>
          /\ errors' = errors + ExceptionsCounted({"error", "raised"})
          /\ broadcast_pc' \in {"idle", "send"}
      ]_vars

(* C35, as stated: every failure of a tick, a send that raises included, is
   counted in errors *)
C35_AsStated ==
    [][(SendEnds \/ ProviderRaises) =>
          /\ errors' = errors + ExceptionsCounted({"error", "closed", "raised"})
          /\ broadcast_pc' \in {"idle", "send"}
      ]_vars

(* C35, its case: the first tick failed and was counted, and the second tick
   has sent its message to a subscriber that is still in the set *)
C35_Witness ==
    /\ ticks = 2
    /\ send_log.failed = {1}
    /\ errors > 0
    /\ send_log.outcome = "sent"
    /\ broadcast_pc = "idle"
    /\ tick_sent \cap connections # {}

(* C15: the messages one tick has passed to the sends of its subscribers
   are all the one message the tick built from the snapshot when it began *)
C15_OnePayloadPerTick ==
    \A ws \in DOMAIN tick_payloads : tick_payloads[ws] = tick_message

(* C15, its case: a tick has passed its message to two subscribers, and an
   ingest has changed the snapshot since the tick built the message *)
C15_Witness ==
    /\ Cardinality(DOMAIN tick_payloads) >= 2
    /\ _format_for_shirley_compatible(get_data(SimCur)) # tick_message

(* The server with peers on any path and a stop at any moment *)
ServerAccept == \E ws \in PeerIds : \E path \in ServerPaths : HandlerAccept(ws, path)
ServerReject == \E ws \in PeerIds : \E path \in ServerPaths : HandlerReject(ws, path)

NextServer ==
    \/ ServerAccept \/ ServerReject \/ PeerCloses \/ BroadcastBegin \/ BroadcastResume
    \/ WsStopBegin \/ WsStopSendCloses \/ WsStopFinish
SpecServer == InitHubSpec /\ [][NextServer]_vars

(* C27: every subscriber connected on a path that ends with the configured
   path; a peer on another path was closed with 1008, is no subscriber and
   no tick has passed it a message *)
C27_RejectedPeerNeverSubscribes ==
    /\ \A ws \in connections : EndsWith(peer_paths[ws], ServerPath)
    /\ \A ws \in DOMAIN peer_paths :
          ~EndsWith(peer_paths[ws], ServerPath)
             => /\ ws \notin connections
                /\ ws \in DOMAIN closed_with /\ closed_with[ws] = 1008
                /\ ws \notin tick_sent
                /\ ws \notin DOMAIN tick_payloads

(* C27, its case: a peer on a path that only starts with the configured path
   was rejected, a peer on a longer path that ends with it is a subscriber,
   and a tick has sent to that one *)
C27_Witness ==
    \E rejected, subscriber \in DOMAIN peer_paths :
       /\ peer_paths[rejected] = ServerPath \o <<"/", "x">>
       /\ peer_paths[subscriber] = <<"/", "x">> \o ServerPath
       /\ subscriber \in connections
       /\ subscriber \in DOMAIN tick_payloads

(* The step is made while stop is under way or done *)
NoSendInStep == tick_sent' = tick_sent /\ tick_payloads' = tick_payloads /\ ticks' = ticks
(* stop has returned: no subscriber is left and the server is not running *)
StoppedClean == stop_pc = "done" => (connections = {} /\ ~ws_running)

(* C25: from the call of stop on no tick passes a message to a send; every
   subscriber that is registered when the tick task has ended is sent a close
   with code 1001; when stop has returned the subscriber set is empty and
   running is false *)
C25_StopClosesSubscribers ==
    [][/\ (stop_pc # "none" \/ stop_pc' # "none") => NoSendInStep
       /\ (stop_pc = "await_task" /\ stop_pc' # "await_task")
             => \A ws \in connections : ws \in DOMAIN closed_with' /\ closed_with'[ws] = 1001
       /\ StoppedClean'
      ]_vars

(* C25 as it is stated: every subscriber registered when stop was called has
   been sent a close with code 1001 when stop has returned *)
C25_AsStated ==
    [][/\ (stop_pc # "none" \/ stop_pc' # "none") => NoSendInStep
       /\ stop_pc' = "done"
             => \A ws \in registered_at_stop' :
                   ws \in DOMAIN closed_with' /\ closed_with'[ws] = 1001
       /\ StoppedClean'
      ]_vars

(* C25, its case: stop was called while a tick had sent to one subscriber
   and not yet to the other, both were sent a close, and stop has returned *)
C25_Witness ==
    /\ stop_pc = "done"
    /\ broadcast_pc = "cancelled"
    /\ tick_start \ tick_sent # {}
    /\ \A ws \in tick_start : ws \in DOMAIN closed_with /\ closed_with[ws] = 1001

(* The step ends a tick *)
TickEnds == broadcast_pc = "send" /\ broadcast_pc' = "idle"

(* C14: when a tick ends, no subscriber whose send failed in it is in the
   subscriber set, and every subscriber whose send succeeded and whose peer
   is still connected is in it *)
C14_FailedSubscribersRemoved ==
    [][TickEnds =>
          /\ stale_connections' \cap connections' = {}
          /\ ((tick_sent' \ stale_connections') \cap handlers') \subseteq connections'
      ]_vars

(* C2: when a tick has ended, send was called for every subscriber that was
   in the set when the tick began *)
C2_TickReachesEverySubscriber ==
    (broadcast_pc = "idle") => tick_start \subseteq tick_sent

-----------------------------------------------------------------------------
(* The histories on their own: one NMEA view ingested again and again while
   the clock moves, a datagram view among the first KvIngestsWithin ingests,
   a reset once the position history has overflowed, and every entry handed
   to _add_to_history observed in appended_log *)

MaxIngests == 22
KvIngestsWithin == 2
MaxResets == 1
HistoryClockStep == HISTORY_MAX_AGE \div 2 + 1
MaxNowHistory == StartTime + 2 * HistoryClockStep

HistoryNmeaViews ==
    {NmeaViewAfter(WithTail(Body_GGA_Fix, "good"), WithTail(Body_LXWP0, "good"))}
HistoryKvViews == {KvViewAfter(Dgram_Full1, Dgram_Full1)}

NoHistory == [category \in DOMAIN SimInit._history |-> <<>>]

(* The entries one merge hands to _add_to_history, per category: what the
   merge leaves in histories that were empty *)
EntriesOfNmea(m, view, t) == _merge_nmea_data([m EXCEPT !._history = NoHistory], view, t)._history
EntriesOfKv(m, view, t) == _merge_udp_data([m EXCEPT !._history = NoHistory], view, t)._history

Observe(entries) ==
    appended_log' = [category \in DOMAIN appended_log |->
                        appended_log[category] \o entries[category]]

HistoryUnchanged ==
    UNCHANGED <<nmeaVars, kvVars, error_count, nmea_latest, kv_latest, fusionVars,
                sourceVars, hubVars, orchVars>>

InitHistory ==
    /\ now = StartTime
    /\ InitP1
    /\ InitP2
    /\ InitSim
    /\ InitBridge
    /\ InitFusionIdle
    /\ InitSourceOf("serial")
    /\ InitHub
    /\ InitHistoryIdle
    /\ InitOrchIdle

HistoryIngestNmea ==
    /\ last_op.n < MaxIngests
    /\ \E view \in HistoryNmeaViews :
          /\ SimSet(update_from_nmea(SimCur, view, now))
          /\ Observe(EntriesOfNmea(SimCur, view, now))
          /\ last_op' = LastOp("serial", last_op.n + 1, TRUE, FALSE, view)
    /\ UNCHANGED <<now, resets, interp_last>>
    /\ HistoryUnchanged

HistoryIngestKv ==
    /\ last_op.n < MaxIngests
    /\ _update_counter < KvIngestsWithin
    /\ \E view \in HistoryKvViews :
          /\ SimSet(update_from_condor_udp(SimCur, view, now))
          /\ Observe(EntriesOfKv(SimCur, view, now))
          /\ last_op' = LastOp("udp", last_op.n + 1, TRUE, FALSE, view)
    /\ UNCHANGED <<now, resets, interp_last>>
    /\ HistoryUnchanged

(* The call that _handle_serial_data makes for a line the parser rejected
   before it has accepted any: get_combined_data gives an empty map *)
HistoryIngestEmpty ==
    /\ last_op.n = 0
    /\ \E view \in {P1Combined(P1Init, now)} :
          /\ DOMAIN view = {}
          /\ SimSet(update_from_nmea(SimCur, view, now))
          /\ last_op' = LastOp("serial", last_op.n + 1, FALSE, FALSE, view)
    /\ UNCHANGED <<now, historyVars>>
    /\ HistoryUnchanged

HistoryReset ==
    /\ last_op.n < MaxIngests
    /\ resets < MaxResets
    /\ Len(appended_log.position) > HISTORY_MAX_SIZE
    /\ SimSet(reset(SimCur))
    /\ resets' = resets + 1
    /\ last_op' = LastOp("reset", last_op.n + 1, FALSE, FALSE, EmptyDict)
    /\ UNCHANGED <<now, appended_log, interp_last>>
    /\ HistoryUnchanged

HistoryAdvance ==
    /\ now + HistoryClockStep <= MaxNowHistory
    /\ now' = now + HistoryClockStep
    /\ UNCHANGED <<simVars, last_op, historyVars>>
    /\ HistoryUnchanged

NextHistory ==
    \/ HistoryIngestNmea \/ HistoryIngestKv \/ HistoryIngestEmpty
    \/ HistoryReset \/ HistoryAdvance
SpecHistory == InitHistory /\ [][NextHistory]_vars

IsSuffix(h, log) ==
    /\ Len(h) <= Len(log)
    /\ h = SubSeq(log, Len(log) - Len(h) + 1, Len(log))

(* The history holds at most HISTORY_MAX_SIZE entries, they are the last
   entries appended, in the order they were appended, and their timestamps
   do not decrease *)
HistoryHoldsTheLatest(history, log) ==
    \A category \in DOMAIN history :
       /\ Len(history[category]) <= HISTORY_MAX_SIZE
       /\ IsSuffix(history[category], log[category])
       /\ \A i \in 1..(Len(history[category]) - 1) :
             history[category][i].timestamp <= history[category][i + 1].timestamp

(* The step appends one entry to a full history: the oldest entry goes and
   nothing else, unless the step is one that also prunes by age *)
OverflowDropsOldest ==
    \A category \in DOMAIN _history :
       (/\ Len(_history[category]) = HISTORY_MAX_SIZE
        /\ Len(appended_log'[category]) = Len(appended_log[category]) + 1)
       => LET entry == appended_log'[category][Len(appended_log'[category])]
              expected == Append(Tail(_history[category]), entry)
          IN /\ IsSuffix(_history'[category], expected)
             /\ _update_counter' % HISTORY_CLEANUP_INTERVAL # 0
                   => _history'[category] = expected

(* C19: every history has at most 20 entries, which are the most recently
   appended ones in the order of their appending with timestamps that do not
   decrease, and an append to a full history drops the oldest entry only *)
C19_HistoryBounded ==
    [][HistoryHoldsTheLatest(_history', appended_log') /\ OverflowDropsOldest]_vars

(* C19, its case: more than 20 entries were appended to the position history,
   which is full *)
C19_Witness ==
    /\ Len(appended_log.position) > HISTORY_MAX_SIZE
    /\ Len(_history.position) = HISTORY_MAX_SIZE
    /\ now > StartTime

(* The step is a call of update_from_nmea or update_from_condor_udp *)
IngestCallStep == last_op'.n = last_op.n + 1 /\ last_op'.op \in {"serial", "udp"}
(* The calls of the two ingest operations made so far *)
IngestCalls == last_op.n - resets
(* No history holds an entry whose age at time t is HISTORY_MAX_AGE or more *)
NoOldEntry(history, t) ==
    \A category \in DOMAIN history :
       \A i \in 1..Len(history[category]) :
          t * Scale - history[category][i].timestamp < HISTORY_MAX_AGE * Scale

(* C32, as amended: every ingest call that hands over a non-empty map, from
   either source, advances the one counter by 1, and when the counter comes
   to a multiple of 10 no history holds an entry aged 60 s or more after the
   call; a call with an empty map leaves the counter and the histories *)
C32_PruneEveryTenthUpdate ==
    [][IngestCallStep =>
          IF DOMAIN last_op'.view # {}
          THEN /\ _update_counter' = _update_counter + 1
               /\ (_update_counter' % HISTORY_CLEANUP_INTERVAL = 0)
                     => NoOldEntry(_history', now')
          ELSE UNCHANGED <<_update_counter, _history>>
      ]_vars

(* C32, as stated: every ingest call advances the counter, and after every
   10th call no history holds an entry aged 60 s or more *)
C32_AsStated ==
    [][IngestCallStep =>
          /\ _update_counter' = _update_counter + 1
          /\ (IngestCalls' % HISTORY_CLEANUP_INTERVAL = 0) => NoOldEntry(_history', now')
      ]_vars

(* C32, its case: ingests of both sources have brought the counter to 10
   more than 60 s after the datagram ingests, whose entries were pruned *)
C32_Witness ==
    /\ _update_counter = HISTORY_CLEANUP_INTERVAL
    /\ _sources.condor_udp.update_count > 0
    /\ _sources.nmea.update_count > 0
    /\ Len(appended_log.motion) > 0
    /\ _history.motion = <<>>

-----------------------------------------------------------------------------
(* SimData.interpolate on the histories that a few ingests leave, at times
   before, between, at and after the times of the entries *)

MaxInterpIngests == 3
MaxNowInterp == StartTime + 2
InterpTimeStep == Scale \div 2     \* half a second

InterpNmeaViews ==
    {NmeaViewAfter(WithTail(Body_GGA_Fix, "good"), WithTail(Body_LXWP0, "good")),
     NmeaViewAfter(WithTail(Body_GGA_NoFix, "good"), WithTail(Body_GGA_NoFix, "good"))}
InterpCategories == {"position", "attitude", "motion", "soaring"}
(* The timestamps asked for: none (the clock is read), and every half second
   from half a second before the first ingest to half a second after the last *)
InterpTimes ==
    {None} \cup {StartTime * Scale + (k - 1) * InterpTimeStep :
                    k \in 0..(((MaxNowInterp - StartTime + 1) * Scale) \div InterpTimeStep)}

InterpIngestNmea ==
    /\ _update_counter < MaxInterpIngests
    /\ \E view \in InterpNmeaViews : SimSet(update_from_nmea(SimCur, view, now))
    /\ UNCHANGED <<now, last_op, historyVars>>
    /\ HistoryUnchanged

InterpIngestKv ==
    /\ _update_counter < MaxInterpIngests
    /\ \E view \in HistoryKvViews : SimSet(update_from_condor_udp(SimCur, view, now))
    /\ UNCHANGED <<now, last_op, historyVars>>
    /\ HistoryUnchanged

InterpAdvance ==
    /\ now < MaxNowInterp
    /\ now' = now + 1
    /\ UNCHANGED <<simVars, last_op, historyVars>>
    /\ HistoryUnchanged

Interpolate ==
    /\ \E category \in InterpCategories : \E timestamp \in InterpTimes :
       \E t \in {IF timestamp = None THEN now * Scale ELSE timestamp} :
          interp_last' = [called |-> TRUE, category |-> category, timestamp |-> t,
                          result |-> interpolate(SimCur, category, t)]
    /\ UNCHANGED <<now, simVars, last_op, appended_log, resets>>
    /\ HistoryUnchanged

NextInterpolate == InterpIngestNmea \/ InterpIngestKv \/ InterpAdvance \/ Interpolate
SpecInterpolate == InitHistory /\ [][NextInterpolate]_vars

(* The step is a call of interpolate *)
InterpolateStep == interp_last' # interp_last /\ interp_last'.called
HistoryOf(call) ==
    IF call.category \in DOMAIN _history THEN _history[call.category] ELSE <<>>
Between(v, a, b) == (a <= v /\ v <= b) \/ (b <= v /\ v <= a)

(* The result is made from a pair of neighbours that encloses the timestamp:
   it holds every field that both have, with a value between their two
   values, and the value of the earlier when their timestamps are equal *)
InterpolatedWithin(h, t, r) ==
    \E i \in 1..(Len(h) - 1) :
       /\ h[i].timestamp <= t /\ t <= h[i + 1].timestamp
       /\ \A key \in (DOMAIN h[i] \cap DOMAIN h[i + 1]) \ {"timestamp"} :
             /\ key \in DOMAIN r
             /\ Between(r[key], h[i][key], h[i + 1][key])
             /\ (h[i].timestamp = h[i + 1].timestamp) => r[key] = h[i][key]

(* What the result is for no entry, for one entry, and for two or more
   entries with the timestamp at or before the first, or strictly between
   the first and the last *)
InterpolatesUpToLatest(h, t, r) ==
    /\ Len(h) = 0 => DOMAIN r = {}
    /\ Len(h) = 1 => r = h[1]
    /\ Len(h) >= 2 =>
          /\ t <= h[1].timestamp => r = h[1]
          /\ (h[1].timestamp < t /\ t < h[Len(h)].timestamp) => InterpolatedWithin(h, t, r)

(* C33, as amended: interpolate returns an empty map for no entry, the entry
   for one entry; for two or more the earliest entry when t is at or before
   its timestamp, else the latest entry when t is at or after its timestamp,
   else for each field of both enclosing samples a value between their two
   values, the earlier one's when their timestamps are equal *)
C33_InterpolateEarliestFirst ==
    [][InterpolateStep =>
          LET h == HistoryOf(interp_last')
              t == interp_last'.timestamp
              r == interp_last'.result
          IN /\ InterpolatesUpToLatest(h, t, r)
             /\ (Len(h) >= 2 /\ h[1].timestamp < t /\ t >= h[Len(h)].timestamp)
                   => r = h[Len(h)]
      ]_vars

(* C33, as stated: with two or more entries the result is the latest entry
   whenever t is at or after its timestamp *)
C33_AsStated ==
    [][InterpolateStep =>
          LET h == HistoryOf(interp_last')
              t == interp_last'.timestamp
              r == interp_last'.result
          IN /\ InterpolatesUpToLatest(h, t, r)
             /\ (Len(h) >= 2 /\ t >= h[Len(h)].timestamp) => r = h[Len(h)]
      ]_vars

(* C33, its case: a position was interpolated at a time strictly between
   two entries of different latitude, to a latitude strictly between *)
C33_Witness ==
    /\ interp_last.called
    /\ interp_last.category = "position"
    /\ Len(_history.position) >= 2
    /\ \E i \in 1..(Len(_history.position) - 1) :
          /\ _history.position[i].timestamp < interp_last.timestamp
          /\ interp_last.timestamp < _history.position[i + 1].timestamp
          /\ _history.position[i].latitude # _history.position[i + 1].latitude
          /\ "latitude" \in DOMAIN interp_last.result
          /\ interp_last.result.latitude # _history.position[i].latitude
          /\ interp_last.result.latitude # _history.position[i + 1].latitude
          /\ Between(interp_last.result.latitude, _history.position[i].latitude,
                     _history.position[i + 1].latitude)

(* C20: no history holds an entry that is 60 s old or older *)
C20_HistoryAgeCapped ==
    \A category \in DOMAIN _history :
       \A i \in 1..Len(_history[category]) :
          now * Scale - _history[category][i].timestamp < HISTORY_MAX_AGE * Scale

-----------------------------------------------------------------------------
(* Bridge as orchestrator (core/bridge.py): start, stop, the housekeeping
   loop and get_status, under every setting of the three `enabled` flags *)

MaxStarts == 1
MaxStopCalls == 2
MaxBridgeIngests == 1
NO_DATA_AGE == 10        \* `data_age > 10.0` in _check_components
BridgeClockStep == NO_DATA_AGE + 1
MaxNowBridge == StartTime + BridgeClockStep

InitBridgeSpec ==
    /\ now = StartTime
    /\ InitP1
    /\ InitP2
    /\ InitSim
    /\ InitBridge
    /\ InitFusionIdle
    /\ InitSourceOf("serial")
    /\ InitHub
    /\ InitHistoryIdle
    /\ \E enabled \in [Components -> BOOLEAN] : InitOrch(enabled)

OrchUnchangedElse ==
    UNCHANGED <<nmeaVars, kvVars, last_op, nmea_latest, kv_latest, fusionVars, sourceVars,
                hubVars, historyVars, settings_enabled, constructed, settings_call>>

(* Bridge.start, called when the bridge is not running, to its await of the
   sleep (with the WebSocket server enabled) or to its end.  A call when the
   bridge is running returns at once and changes nothing. *)
BridgeStart ==
    /\ ~bridge_running
    /\ start_pc = "idle"
    /\ starts < MaxStarts
    /\ starts' = starts + 1
    /\ startup_time' = now
    /\ bridge_running' = TRUE
    /\ \E serial_ok, udp_ok \in BOOLEAN :
         /\ component' =
               [component EXCEPT
                  !.serial = IF ~settings_enabled.serial THEN @
                             ELSE IF serial_ok THEN "started" ELSE "failed",
                  !.udp = IF ~settings_enabled.udp THEN @
                          ELSE IF udp_ok THEN "started" ELSE "failed",
                  !.websocket = IF settings_enabled.websocket THEN "started" ELSE @]
         /\ error_count' = (IF settings_enabled.serial /\ ~serial_ok THEN 1 ELSE 0)
                           + (IF settings_enabled.udp /\ ~udp_ok THEN 1 ELSE 0)
         /\ reader_pc' = IF settings_enabled.serial /\ serial_ok THEN "loop" ELSE reader_pc
    /\ IF settings_enabled.websocket
       THEN /\ ws_task' = "pending"
            /\ start_pc' = "sleep"
            /\ UNCHANGED main_task
       ELSE /\ main_task' = "running"
            /\ UNCHANGED <<ws_task, start_pc>>
    /\ UNCHANGED <<now, simVars, bridge_stop_pc, stop_log, reset_calls, stop_calls,
                   stop_reentered, queried, last_check, status_result>>
    /\ OrchUnchangedElse

(* Bridge.start, from the end of the sleep: the housekeeping task is created;
   its loop ends at once when running is already false *)
BridgeStartResume ==
    /\ start_pc = "sleep"
    /\ start_pc' = "idle"
    /\ main_task' = IF bridge_running THEN "running" ELSE "ended"
    /\ UNCHANGED <<now, simVars, error_count, bridge_running, startup_time, component,
                   ws_task, bridge_stop_pc, stop_log, reset_calls, starts, stop_calls,
                   stop_reentered, queried, last_check, status_result>>
    /\ UNCHANGED reader_pc
    /\ OrchUnchangedElse

(* The task created for WebSocketServer.start: serve() opens the listening
   socket or raises OSError, which ends the task; nobody awaits the task *)
WsTaskRuns ==
    /\ ws_task = "pending"
    /\ ws_task' \in {"listening", "failed"}
    /\ UNCHANGED <<now, simVars, error_count, bridge_running, startup_time, main_task,
                   component, start_pc, bridge_stop_pc, stop_log, reset_calls, starts,
                   stop_calls, stop_reentered, queried, last_check, status_result>>
    /\ UNCHANGED reader_pc
    /\ OrchUnchangedElse

(* SerialReader.close as Bridge.stop calls it: running is set to false and
   the reading thread is joined for at most 2 s.  A thread waiting in
   readline ends within the wait or after it.  A thread that holds a line
   either delivers it within the wait, which is a BridgeIngest step before
   this one, or is left where it is when the wait runs out. *)
ReaderAlive == settings_enabled.serial /\ reader_pc \in {"loop", "callback"}
ReaderAfterClose(joined) ==
    IF ReaderAlive /\ joined /\ reader_pc = "loop" THEN "ended" ELSE reader_pc

(* The end of Bridge.stop: the receiver and the reader are closed when
   enabled, then SimData.reset is called *)
StopTailResetFirst(enabled) ==
    <<"reset_M">>
    \o (IF enabled.udp THEN <<"close_D">> ELSE <<>>)
    \o (IF enabled.serial THEN <<"close_L">> ELSE <<>>)
StopTail(enabled) ==
    (IF enabled.udp THEN <<"close_D">> ELSE <<>>)
    \o (IF enabled.serial THEN <<"close_L">> ELSE <<>>)
    \o <<"reset_M">>

StopRest(log) ==
    /\ component' = [component EXCEPT
                       !.udp = IF settings_enabled.udp THEN "stopped" ELSE @,
                       !.serial = IF settings_enabled.serial THEN "stopped" ELSE @]
    /\ \E joined \in BOOLEAN : reader_pc' = ReaderAfterClose(joined)
    /\ SimSet(reset(SimCur))
    /\ reset_calls' = reset_calls + 1
    /\ stop_log' = log \o StopTail(settings_enabled)
    /\ bridge_stop_pc' = "idle"
    /\ UNCHANGED ws_task

(* Bridge.stop at "Stop WebSocket server": with the server enabled stop
   awaits websocket_server.stop(), and an exception of it is caught *)
StopServer(log) ==
    IF settings_enabled.websocket
    THEN /\ component' = [component EXCEPT !.websocket = "stopped"]
         /\ ws_task' = IF ws_task = "listening" THEN "closed" ELSE ws_task
         /\ stop_log' = log \o <<"stop_B">>
         /\ bridge_stop_pc' = "after_server"
         /\ UNCHANGED <<simVars, reset_calls, reader_pc>>
    ELSE StopRest(log)

(* The test at the top of Bridge.stop *)
StopAlways(is_running) == TRUE
StopProceeds(is_running) == is_running

(* A call of Bridge.stop, to its first await or to its end.  When the bridge
   is not running (never started, stopped, or a stop under way, which has set
   running to false before its first await) it returns at once.  A main_task
   that has ended already is cancelled and awaited all the same, to no effect
   and without a wait. *)
BridgeStopCall ==
    /\ stop_calls < MaxStopCalls
    /\ stop_calls' = stop_calls + 1
    /\ IF StopProceeds(bridge_running)
       THEN /\ bridge_running' = FALSE
            /\ IF main_task = "running"
               THEN /\ main_task' = "cancelled"
                    /\ stop_log' = <<"cancel_housekeeping">>
                    /\ bridge_stop_pc' = "after_cancel"
                    /\ UNCHANGED <<simVars, component, ws_task, reset_calls, reader_pc>>
               ELSE /\ StopServer(IF main_task = "none" THEN <<>>
                                   ELSE <<"cancel_housekeeping">>)
                    /\ UNCHANGED main_task
            /\ UNCHANGED stop_reentered
       ELSE /\ stop_reentered' = (stop_reentered \/ bridge_stop_pc # "idle")
            /\ UNCHANGED <<simVars, bridge_running, main_task, component, ws_task,
                           bridge_stop_pc, stop_log, reset_calls, reader_pc>>
    /\ UNCHANGED <<now, error_count, startup_time, start_pc, starts, queried, last_check,
                   status_result>>
    /\ OrchUnchangedElse

(* Bridge.stop, from the end of `await self.main_task` *)
BridgeStopAfterCancel ==
    /\ bridge_stop_pc = "after_cancel"
    /\ StopServer(stop_log)
    /\ UNCHANGED <<now, error_count, bridge_running, startup_time, main_task, start_pc,
                   starts, stop_calls, stop_reentered, queried, last_check, status_result>>
    /\ OrchUnchangedElse

(* Bridge.stop, from the end of `await self.websocket_server.stop()` *)
BridgeStopAfterServer ==
    /\ bridge_stop_pc = "after_server"
    /\ StopRest(stop_log)
    /\ UNCHANGED <<now, error_count, bridge_running, startup_time, main_task, start_pc,
                   starts, stop_calls, stop_reentered, queried, last_check, status_result>>
    /\ OrchUnchangedElse

EnabledOf(cs) == {c \in cs : settings_enabled[c]}

(* One round of _main_loop: _check_components, and _log_status when
   int(time.time()) % 10 == 0 *)
_check_components ==
    /\ main_task = "running"
    /\ bridge_running
    /\ queried' = queried \cup EnabledOf({"serial", "udp"})
                          \cup (IF now % 10 = 0 THEN EnabledOf(Components) ELSE {})
    /\ last_check' =
          [time |-> now,
           warned |-> /\ ~is_active(SimCur, now)
                      /\ now - get_last_update_time(SimCur) > NO_DATA_AGE
                      /\ get_last_update_time(SimCur) > 0]
    /\ UNCHANGED <<now, simVars, error_count, bridge_running, startup_time, main_task,
                   component, ws_task, start_pc, bridge_stop_pc, stop_log, reset_calls,
                   starts, stop_calls, stop_reentered, status_result>>
    /\ UNCHANGED reader_pc
    /\ OrchUnchangedElse

(* Bridge.get_status: the entries of the three components *)
get_status ==
    /\ status_result' = [c \in Components |->
                            IF settings_enabled[c] THEN component[c] ELSE "null"]
    /\ queried' = queried \cup EnabledOf(Components)
    /\ UNCHANGED <<now, simVars, error_count, bridge_running, startup_time, main_task,
                   component, ws_task, start_pc, bridge_stop_pc, stop_log, reset_calls,
                   starts, stop_calls, stop_reentered, last_check>>
    /\ UNCHANGED reader_pc
    /\ OrchUnchangedElse

(* _read_loop of the started reader: readline has returned a line, which is
   on its way to the callback *)
ReaderReads ==
    /\ reader_pc = "loop"
    /\ component.serial = "started"
    /\ _update_counter < MaxBridgeIngests
    /\ reader_pc' = "callback"
    /\ UNCHANGED <<now, simVars, error_count, bridge_running, startup_time, main_task,
                   component, ws_task, start_pc, bridge_stop_pc, stop_log, reset_calls,
                   starts, stop_calls, stop_reentered, queried, last_check, status_result>>
    /\ OrchUnchangedElse

(* _read_loop once running is false or the port is closed: the thread ends *)
ReaderExits ==
    /\ reader_pc = "loop"
    /\ component.serial = "stopped"
    /\ reader_pc' = "ended"
    /\ UNCHANGED <<now, simVars, error_count, bridge_running, startup_time, main_task,
                   component, ws_task, start_pc, bridge_stop_pc, stop_log, reset_calls,
                   starts, stop_calls, stop_reentered, queried, last_check, status_result>>
    /\ OrchUnchangedElse

(* The callback of the reading thread: the line goes through
   _handle_serial_data into the model, whatever the bridge is doing *)
BridgeIngest ==
    /\ reader_pc = "callback"
    /\ reader_pc' = "loop"
    /\ \E view \in HubNmeaViews : SimSet(update_from_nmea(SimCur, view, now))
    /\ UNCHANGED <<now, error_count, bridge_running, startup_time, main_task, component,
                   ws_task, start_pc, bridge_stop_pc, stop_log, reset_calls, starts,
                   stop_calls, stop_reentered, queried, last_check, status_result>>
    /\ OrchUnchangedElse

BridgeAdvance ==
    /\ now + BridgeClockStep <= MaxNowBridge
    /\ now' = now + BridgeClockStep
    /\ UNCHANGED <<simVars, error_count, bridge_running, startup_time, main_task, component,
                   ws_task, start_pc, bridge_stop_pc, stop_log, reset_calls, starts,
                   stop_calls, stop_reentered, queried, last_check, status_result>>
    /\ UNCHANGED reader_pc
    /\ OrchUnchangedElse

NextBridge ==
    \/ BridgeStart \/ BridgeStartResume \/ WsTaskRuns
    \/ BridgeStopCall \/ BridgeStopAfterCancel \/ BridgeStopAfterServer
    \/ _check_components \/ get_status \/ BridgeAdvance
    \/ ReaderReads \/ ReaderExits \/ BridgeIngest
SpecBridge == InitBridgeSpec /\ [][NextBridge]_vars

(* The order the stop path is to keep *)
StopOrder == <<"cancel_housekeeping", "stop_B", "close_D", "close_L", "reset_M">>
PlaceInStopOrder(step) == CHOOSE k \in 1..Len(StopOrder) : StopOrder[k] = step

StopLogInOrder(log) ==
    /\ \A i, j \in 1..Len(log) :
          i < j => PlaceInStopOrder(log[i]) < PlaceInStopOrder(log[j])
    /\ (\E i \in 1..Len(log) : log[i] = "reset_M")
          => /\ settings_enabled.websocket => \E i \in 1..Len(log) : log[i] = "stop_B"
             /\ settings_enabled.udp => \E i \in 1..Len(log) : log[i] = "close_D"
             /\ settings_enabled.serial => \E i \in 1..Len(log) : log[i] = "close_L"
(* C22: what a stop has done so far is in the order: housekeeping cancelled,
   B stopped, D closed, L closed, M reset; a running housekeeping task is
   cancelled before anything else, and the reset comes after the stop or
   close of every enabled component *)
C22_StopOrder ==
    [][/\ StopLogInOrder(stop_log')
       /\ (bridge_running /\ ~bridge_running' /\ main_task = "running")
             => (stop_log' = <<"cancel_housekeeping">> /\ main_task' = "cancelled")
      ]_vars

(* C22, its case: a stop of a bridge with all three components enabled and
   the housekeeping task running has gone through all five steps *)
C22_Witness == stop_log = StopOrder /\ bridge_stop_pc = "idle"

(* The step is a call of stop that finds the bridge not running *)
StopCallWhenNotRunning == stop_calls' = stop_calls + 1 /\ ~bridge_running

(* C23: a call of stop that finds the bridge not running, be it stopped,
   never started or in a stop that is under way, stops no component and
   calls no reset; so stop has called reset at most once per start *)
C23_StopIdempotent ==
    [][/\ StopCallWhenNotRunning
             => UNCHANGED <<component, ws_task, main_task, stop_log, reset_calls,
                            bridge_stop_pc, simVars>>
       /\ reset_calls' <= starts'
      ]_vars

(* C23, its case: a second call of stop was made while the first was under
   way, the first has ended, and reset was called once *)
C23_Witness ==
    /\ stop_reentered
    /\ stop_calls = MaxStopCalls
    /\ bridge_stop_pc = "idle"
    /\ reset_calls = 1

(* The components that start has counted as failed *)
FailedToStart ==
    {c \in {"serial", "udp"} : component[c] = "failed"}
    \cup (IF ws_task = "failed" THEN {"websocket"} ELSE {})

(* C26: when start has ended and the listening socket of B could not be
   opened, error_count has counted it, and the bridge is running with the
   other enabled components started *)
C26_ServerStartFailureCounted ==
    (start_pc = "idle" /\ bridge_running /\ ws_task = "failed")
       => /\ error_count = Cardinality(FailedToStart)
          /\ \A c \in {"serial", "udp"} :
                settings_enabled[c] => component[c] \in {"started", "failed"}

(* C28: a component whose section is disabled is not constructed, never
   started or stopped, never asked for its status, and get_status gives null
   for it *)
C28_DisabledComponentUntouched ==
    \A c \in Components :
       ~settings_enabled[c]
          => /\ c \notin constructed
             /\ component[c] = "idle"
             /\ c \notin queried
             /\ (DOMAIN status_result # {} => status_result[c] = "null")

(* The step is a run of _check_components *)
CheckStep == last_check' # last_check /\ last_check'.time = now
(* No source was updated in the last NO_DATA_AGE seconds, and the bridge was
   started longer ago than that *)
QuietForLong ==
    /\ now - startup_time > NO_DATA_AGE
    /\ \A name \in DOMAIN _sources : now - _sources[name].last_update_time > NO_DATA_AGE

(* C29: a housekeeping check made when the bridge has run for more than 10 s
   and no source was updated in the last 10 s, or ever, logs the warning *)
C29_NoDataWarning ==
    [][(CheckStep /\ QuietForLong) => last_check'.warned]_vars


(* Bridge.stop has run to its end and the bridge has not been started since *)
StopHasReturned == reset_calls > 0 /\ ~bridge_running /\ bridge_stop_pc = "idle"

(* C38: once stop has returned and until the next start, the snapshot is
   empty and both sources are not connected, also when the reading thread of
   L had not ended when close returned *)
C38_NoIngestAfterStop ==
    StopHasReturned
       => /\ DOMAIN _data = {}
          /\ \A name \in DOMAIN _sources : ~_sources[name].connected

-----------------------------------------------------------------------------
(* Bridge.update_settings (core/bridge.py), called from the thread of the
   window while the loop of the bridge runs in its own thread: a running
   bridge is stopped in an event loop of its own, the settings are loaded,
   the components are constructed anew and the bridge is started again *)

MaxUpdateCalls == 1

(* Settings.load: False when the file cannot be read or is not JSON, True
   otherwise, also when the file does not exist *)
LoadOutcomes == {TRUE, FALSE}

(* What is left when the loop that ran stop or start has been closed: a task
   created in it is never run again *)
Stranded == "stranded"

SettingsCall(was_running, result) ==
    [n |-> settings_call.n + 1, was_running |-> was_running, result |-> result]

(* update_settings on a bridge that is not running: load, and on success
   _init_io_components *)
UpdateWhenStopped ==
    /\ ~bridge_running
    /\ \E success \in LoadOutcomes :
          IF success
          THEN /\ \E enabled \in [Components -> BOOLEAN] : settings_enabled' = enabled
               /\ constructed' = Components
               /\ component' = [c \in Components |-> "idle"]
               /\ settings_call' = SettingsCall(FALSE, "true")
          ELSE /\ settings_call' = SettingsCall(FALSE, "false")
               /\ UNCHANGED <<settings_enabled, constructed, component>>
    /\ UNCHANGED <<simVars, error_count, bridge_running, startup_time, main_task, ws_task,
                   stop_log, reset_calls, starts, reader_pc>>

(* update_settings on a running bridge whose housekeeping task is pending in
   the loop of the bridge: stop sets running to false, cancels the task and
   awaits it from another loop, which raises RuntimeError out of stop and out
   of update_settings *)
UpdateStopRaises ==
    /\ bridge_running
    /\ main_task = "running"
    /\ bridge_running' = FALSE
    /\ main_task' = "cancelled"
    /\ stop_log' = <<"cancel_housekeeping">>
    /\ settings_call' = SettingsCall(TRUE, "raised")
    /\ UNCHANGED <<simVars, error_count, settings_enabled, constructed, component,
                   startup_time, ws_task, reset_calls, starts, reader_pc>>

(* The rest of update_settings once stop has run to its end *)
StartedAgain(enabled, serial_ok, udp_ok) ==
    [serial |-> IF ~enabled.serial THEN "idle" ELSE IF serial_ok THEN "started" ELSE "failed",
     udp |-> IF ~enabled.udp THEN "idle" ELSE IF udp_ok THEN "started" ELSE "failed",
     websocket |-> IF enabled.websocket THEN "started" ELSE "idle"]

(* update_settings on a running bridge with no housekeeping task pending
   (start is in its sleep): stop runs to its end; then load, and on success
   _init_io_components and start, run to its end in a loop that is closed
   after it *)
UpdateAfterStop ==
    /\ bridge_running
    /\ main_task # "running"
    /\ stop_log' = (IF main_task = "none" THEN <<>> ELSE <<"cancel_housekeeping">>)
                   \o (IF settings_enabled.websocket THEN <<"stop_B">> ELSE <<>>)
                   \o StopTail(settings_enabled)
    /\ reset_calls' = reset_calls + 1
    /\ SimSet(reset(SimCur))
    /\ \E success \in LoadOutcomes, joined \in BOOLEAN :
          IF success
          THEN /\ \E enabled \in [Components -> BOOLEAN], serial_ok, udp_ok \in BOOLEAN :
                     /\ settings_enabled' = enabled
                     /\ component' = StartedAgain(enabled, serial_ok, udp_ok)
                     /\ error_count' = (IF enabled.serial /\ ~serial_ok THEN 1 ELSE 0)
                                       + (IF enabled.udp /\ ~udp_ok THEN 1 ELSE 0)
                     /\ ws_task' = IF enabled.websocket THEN Stranded
                                   ELSE IF ws_task = "listening" THEN "closed" ELSE ws_task
                     /\ reader_pc' = IF enabled.serial /\ serial_ok THEN "loop"
                                     ELSE ReaderAfterClose(joined)
               /\ constructed' = Components
               /\ bridge_running' = TRUE
               /\ startup_time' = now
               /\ main_task' = Stranded
               /\ starts' = starts + 1
               /\ settings_call' = SettingsCall(TRUE, "true")
          ELSE /\ component' =
                     [c \in Components |->
                         IF settings_enabled[c] THEN "stopped" ELSE component[c]]
               /\ ws_task' = IF settings_enabled.websocket /\ ws_task = "listening"
                             THEN "closed" ELSE ws_task
               /\ reader_pc' = ReaderAfterClose(joined)
               /\ bridge_running' = FALSE
               /\ settings_call' = SettingsCall(TRUE, "false")
               /\ UNCHANGED <<error_count, settings_enabled, constructed, startup_time,
                              main_task, starts>>

update_settings ==
    /\ settings_call.n < MaxUpdateCalls
    /\ bridge_stop_pc = "idle"
    /\ \/ UpdateWhenStopped
       \/ UpdateStopRaises
       \/ UpdateAfterStop
    /\ UNCHANGED <<now, nmeaVars, kvVars, last_op, nmea_latest, kv_latest, fusionVars,
                   sourceVars, hubVars, historyVars, start_pc, bridge_stop_pc, stop_calls,
                   stop_reentered, queried, last_check, status_result>>

NextSettings ==
    \/ BridgeStart \/ BridgeStartResume \/ WsTaskRuns
    \/ ReaderReads \/ ReaderExits \/ BridgeIngest
    \/ BridgeAdvance
    \/ update_settings
SpecSettings == InitBridgeSpec /\ [][NextSettings]_vars

(* The step is a call of update_settings on a running bridge that returns
   False *)
FailedUpdateOfRunning ==
    /\ settings_call'.n = settings_call.n + 1
    /\ settings_call'.result = "false"
    /\ bridge_running

(* C40: a call of update_settings that returns False leaves a running bridge
   running with its components as they were *)
C40_FailedUpdateKeepsRunning ==
    [][FailedUpdateOfRunning => (bridge_running' /\ component' = component)]_vars

----------------------------------------------------------------------------
(* Properties of the parser alone (SpecNmea) *)

(* The step is a call of parse_sentence that returns True for a sentence of
   the kind *)
P1AcceptingStep(kind) ==
    /\ now' = now
    /\ p1_last'.called /\ p1_last'.ok
    /\ FieldsTable[p1_last'.sentence].kind = kind

(* C30: an accepted GPRMC whose status is not 'A' leaves valid false; valid
   goes from false to true only by an accepted GPGGA of quality > 0, so it
   stays false over every GPRMC; after an accepted GPGGA valid is true
   exactly if the quality of the sentence is > 0 *)
C30_VoidRmcHoldsValidFalse ==
    [][/\ (P1AcceptingStep("GPRMC") /\ ~FieldsTable[p1_last'.sentence].is_valid)
          => ~gps_position'.valid
       /\ (IsSet(gps_position) /\ ~gps_position.valid /\ gps_position'.valid)
          => (P1AcceptingStep("GPGGA") /\ FieldsTable[p1_last'.sentence].fix_quality > 0)
       /\ P1AcceptingStep("GPGGA")
          => gps_position'.valid = (FieldsTable[p1_last'.sentence].fix_quality > 0)
      ]_vars

(* C30, its case: an active GPRMC was accepted and valid is still false *)
C30_Witness ==
    /\ p1_last.called /\ p1_last.ok
    /\ p1_last.sentence = WithTail(Body_RMC_Active, "good")
    /\ IsSet(gps_position) /\ ~gps_position.valid

(* C39: valid is true only with a fix quality above 0 *)
C39_ValidImpliesFix ==
    (IsSet(gps_position) /\ gps_position.valid) => gps_position.fix_quality > 0

(* C39, its case: an active GPRMC was accepted on a position that a GPGGA
   with a fix had made valid, and the position is still valid *)
C39_Witness ==
    /\ p1_last.called /\ p1_last.ok
    /\ p1_last.sentence = WithTail(Body_RMC_Active, "good")
    /\ IsSet(gps_position) /\ gps_position.valid
    /\ gps_position.satellites > 0

(* The fields of the position that the step left as they were *)
PositionKeeps(fields) ==
    \A k \in fields : gps_position'[k] = gps_position[k]

(* C34: on a position that exists, an accepted GPGGA leaves ground speed and
   track as they were, and an accepted GPRMC leaves altitude, fix quality and
   satellite count as they were, and valid too unless its status is void *)
C34_SentenceFrame ==
    [][IsSet(gps_position) =>
          /\ P1AcceptingStep("GPGGA") => PositionKeeps({"ground_speed", "track_true"})
          /\ P1AcceptingStep("GPRMC")
                => /\ PositionKeeps({"altitude_msl", "fix_quality", "satellites"})
                   /\ FieldsTable[p1_last'.sentence].is_valid => PositionKeeps({"valid"})
      ]_vars

(* C34, its case: a GPGGA was accepted on a position that holds the speed and
   the track of an earlier GPRMC *)
C34_Witness ==
    /\ p1_last.called /\ p1_last.ok
    /\ FieldsTable[p1_last.sentence].kind = "GPGGA"
    /\ IsSet(gps_position)
    /\ gps_position.ground_speed > 0 /\ gps_position.track_true > 0
    /\ gps_position.altitude_msl > 0

(* The step is a call of parse_sentence that returned False *)
P1RejectingStep == now' = now /\ p1_last'.called /\ ~p1_last'.ok /\ ~p1_last'.raised

(* C11: a call of parse_sentence that returns False leaves gps_position,
   soaring_data, last_gps_time and last_soaring_time as they were; so a
   rejected first sentence leaves gps_position absent *)
C11_RejectLeavesParserState ==
    [][P1RejectingStep =>
          UNCHANGED <<gps_position, soaring_data, last_gps_time, last_soaring_time>>]_vars

(* C11, its case: a sentence with a latitude out of range was rejected while
   the parser held a position and soaring data *)
C11_Witness ==
    /\ p1_last.called /\ ~p1_last.ok /\ ~p1_last.raised
    /\ p1_last.sentence = WithTail(Body_GGA_BadLat, "good")
    /\ IsSet(gps_position)
    /\ IsSet(soaring_data)

(* C13: parse_sentence returns a boolean, it never raises *)
C13_ParseNeverRaises ==
    p1_last.called => ~p1_last.raised

----------------------------------------------------------------------------
(* Exactly one '*', and the two characters after it are hex digits whose
   value is the XOR of the characters between the leading '$' and the '*' *)
ChecksumWellFormed(sentence) ==
    LET parts == Split(sentence, "*")
    IN /\ Len(parts) = 2
       /\ Len(parts[2]) >= 2
       /\ parts[2][1] \in HexDigits /\ parts[2][2] \in HexDigits
       /\ 16 * HexVal(parts[2][1]) + HexVal(parts[2][2])
            = XorAll(IF Len(parts[1]) > 0 /\ Head(parts[1]) = "$" THEN Tail(parts[1]) ELSE parts[1])

(* C10: a sentence with a '*' that parse_sentence accepted has exactly one
   '*', followed by two hex digits whose value is the XOR of the characters
   between the leading '$' and the '*' *)
C10_ChecksumGate ==
    (p1_last.called /\ p1_last.ok /\ Contains(p1_last.sentence, "*"))
        => ChecksumWellFormed(Strip(p1_last.sentence))

====
